---- MODULE Spec2Model ----
(***************************************************************************)
(* Compliance rule engine of the Databricks table audit: the clustering    *)
(* validator (tests/validators/clustering.py), the documentation validator *)
(* (tests/validators/documentation.py) and the comprehensive aggregator    *)
(* (tests/validators/comprehensive.py), the results tracking of the test   *)
(* session (results/results.py) and the schema detector                    *)
(* (tests/utils/schema_detector.py).                                       *)
(*                                                                         *)
(* Python strings are sequences of one-character strings, so that lower(), *)
(* strip(), str() and regular-expression matching are computed and not     *)
(* assumed.  Python values of mixed type (property values are `Any`) are   *)
(* records with a kind tag.                                                *)
(***************************************************************************)
EXTENDS Integers, Sequences, FiniteSets, TLC

VARIABLES table, config, call, result,
          _results_manager, managers, threads, now, client

vars == <<table, config, call, result, _results_manager, managers, threads, now, client>>

\* The state of results.results: the global instance, the ResultsManager
\* objects created so far, the threads calling into the module, the clock
reporting == <<_results_manager, managers, threads, now>>

\* `_results_manager = None`; an instance is its position in managers
NoInstance == 0

\* results.results as imported, and a workspace client not yet called
NothingRecorded ==
    /\ _results_manager = NoInstance
    /\ managers = <<>>
    /\ threads = <<>>
    /\ now = 0
    /\ client = <<>>

(***************************************************************************)
(* Python values                                                           *)
(***************************************************************************)
None == [k |-> "none", s |-> <<>>, n |-> 0, b |-> FALSE, l |-> <<>>]

PyStr(chars) == [k |-> "str", s |-> chars, n |-> 0, b |-> FALSE, l |-> <<>>]

PyInt(i) == [k |-> "int", s |-> <<>>, n |-> i, b |-> FALSE, l |-> <<>>]

PyBool(x) == [k |-> "bool", s |-> <<>>, n |-> 0, b |-> x, l |-> <<>>]

PyList(items) == [k |-> "list", s |-> <<>>, n |-> 0, b |-> FALSE, l |-> items]

\* Python truth value: `not v` is ~Truthy(v).
Truthy(v) ==
    CASE v.k = "none" -> FALSE
      [] v.k = "str"  -> v.s # <<>>
      [] v.k = "int"  -> v.n # 0
      [] v.k = "bool" -> v.b
      [] v.k = "list" -> v.l # <<>>

UpperLetters ==
    <<"A","B","C","D","E","F","G","H","I","J","K","L","M",
      "N","O","P","Q","R","S","T","U","V","W","X","Y","Z">>

LowerLetters ==
    <<"a","b","c","d","e","f","g","h","i","j","k","l","m",
      "n","o","p","q","r","s","t","u","v","w","x","y","z">>

DigitChars == <<"0","1","2","3","4","5","6","7","8","9">>

IsUpper(c) == \E i \in DOMAIN UpperLetters : UpperLetters[i] = c

LowerChar(c) ==
    IF IsUpper(c)
    THEN LowerLetters[CHOOSE i \in DOMAIN UpperLetters : UpperLetters[i] = c]
    ELSE c

\* str.lower()
Lower(chars) == [i \in 1..Len(chars) |-> LowerChar(chars[i])]

RECURSIVE NatStr(_)
NatStr(i) ==
    IF i < 10 THEN <<DigitChars[i + 1]>>
    ELSE NatStr(i \div 10) \o <<DigitChars[(i % 10) + 1]>>

\* str(v) for the value kinds a flag property can hold
StrOf(v) ==
    CASE v.k = "str"  -> v.s
      [] v.k = "int"  -> IF v.n < 0 THEN <<"-">> \o NatStr(0 - v.n) ELSE NatStr(v.n)
      [] v.k = "bool" -> IF v.b THEN <<"T","r","u","e">> ELSE <<"F","a","l","s","e">>
      [] v.k = "none" -> <<"N","o","n","e">>
      [] v.k = "list" -> <<"[", "]">>

(***************************************************************************)
(* TableInfo.properties: None, or a dict from property names to values.    *)
(***************************************************************************)
NoProperties == [present |-> FALSE, map |-> <<>>]

Props(m) == [present |-> TRUE, map |-> m]

\* dict.get(key): the value, or None when the key is absent
Get(props, key) == IF key \in DOMAIN props.map THEN props.map[key] ELSE None

\* `not table.properties`: None or an empty dict
PropsFalsy(props) == ~props.present \/ DOMAIN props.map = {}

true_str == <<"t","r","u","e">>

(***************************************************************************)
(* An optional integer argument of a call: omitted, None, or a number.     *)
(***************************************************************************)
Omitted == [given |-> FALSE, none |-> TRUE, v |-> 0]

ArgNone == [given |-> TRUE, none |-> TRUE, v |-> 0]

ArgInt(i) == [given |-> TRUE, none |-> FALSE, v |-> i]

Returned(v) == [exc |-> "none", val |-> v]

Raised(e) == [exc |-> e, val |-> FALSE]

NoCall == [op |-> "none", threshold |-> Omitted, size |-> Omitted]

Invoke(op) == [op |-> op, threshold |-> Omitted, size |-> Omitted]

InvokeSized(op, th, sz) == [op |-> op, threshold |-> th, size |-> sz]

(***************************************************************************)
(* Inputs: property values, tables, sizes                                  *)
(***************************************************************************)
MaxProps == 2

\* Values a flag property can hold: casings of "true", other strings,
\* and non-string values.
FlagValues ==
    { PyStr(<<"t","r","u","e">>), PyStr(<<"T","r","u","e">>),
      PyStr(<<"T","R","U","E">>), PyStr(<<"f","a","l","s","e">>),
      PyStr(<<"y","e","s">>), PyStr(<<"1">>), PyStr(<<>>),
      PyInt(1), PyInt(0), PyInt(123), PyBool(TRUE), PyBool(FALSE), None }

\* All dicts with at most MaxProps keys of DOMAIN allowed, each key holding
\* one of the values allowed[key].
DictsOver(allowed) ==
    UNION { { f \in [D -> UNION { allowed[k] : k \in D }] :
                \A k \in D : f[k] \in allowed[k] } :
            D \in { E \in SUBSET (DOMAIN allowed) : Cardinality(E) <= MaxProps } }

TableInfo(comment, columns, properties) ==
    [comment |-> comment, columns |-> columns, properties |-> properties]

ExclusionKeys == {"cluster_exclusion", "exclude_from_clustering"}

\* Values an exclusion property can hold: the flag values and a padded "true"
ExclusionValues == FlagValues \cup { PyStr(<<"t","r","u","e"," ">>) }

ExemptionTables ==
    { TableInfo(None, <<>>, p) :
        p \in {NoProperties} \cup
              { Props(m) : m \in DictsOver([k \in ExclusionKeys |-> ExclusionValues]) } }

size_threshold_bytes == 1073741824

test_size_threshold_bytes == 1048576

ThresholdArgs == { ArgInt(size_threshold_bytes), ArgInt(test_size_threshold_bytes) }

SizeArgs ==
    { ArgInt(i) : i \in { 0 - 1, 0, 500000, test_size_threshold_bytes - 1,
                          test_size_threshold_bytes, test_size_threshold_bytes + 1,
                          500000000, size_threshold_bytes - 1, size_threshold_bytes,
                          2000000000 } }
    \cup {ArgNone}

(***************************************************************************)
(* ClusteringValidator configuration (ClusteringValidator.__init__)        *)
(***************************************************************************)
ClusteringConfig(honor, exempt, both) ==
    [ clustering_property_name |-> "clusteringColumns",
      max_clustering_columns   |-> 4,
      cluster_by_auto_property |-> "clusterByAuto",
      cluster_by_auto_value    |-> PyStr(true_str),
      optimize_write_property  |-> "delta.autoOptimize.optimizeWrite",
      optimize_write_value     |-> PyStr(true_str),
      auto_compact_property    |-> "delta.autoOptimize.autoCompact",
      auto_compact_value       |-> PyStr(true_str),
      require_both_delta_flags |-> both,
      honor_exclusion_flag     |-> honor,
      exclusion_property_name  |-> "cluster_exclusion",
      exempt_small_tables      |-> exempt ]

(***************************************************************************)
(* Clustering exemption methods                                            *)
(***************************************************************************)
has_cluster_exclusion_ignoring_flag(cfg, t) ==
    IF ~t.properties.present THEN FALSE
    ELSE LET exclusion_value == Get(t.properties, cfg.exclusion_property_name)
         IN  IF ~Truthy(exclusion_value) THEN FALSE
             ELSE Lower(StrOf(exclusion_value)) = true_str

has_cluster_exclusion(cfg, t) ==
    IF ~cfg.honor_exclusion_flag THEN FALSE
    ELSE IF ~t.properties.present THEN FALSE
    ELSE LET exclusion_value == Get(t.properties, cfg.exclusion_property_name)
         IN  IF ~Truthy(exclusion_value) THEN FALSE
             ELSE Lower(StrOf(exclusion_value)) = true_str

get_cluster_exclusion_status_unknown_first(cfg, t) ==
    IF ~t.properties.present THEN "unknown"
    ELSE IF ~cfg.honor_exclusion_flag THEN "disabled"
    ELSE LET exclusion_value == Get(t.properties, cfg.exclusion_property_name)
         IN  IF exclusion_value = None THEN "not_excluded"
             ELSE IF Lower(StrOf(exclusion_value)) = true_str THEN "excluded"
             ELSE "not_excluded"

get_cluster_exclusion_status(cfg, t) ==
    IF ~cfg.honor_exclusion_flag THEN "disabled"
    ELSE IF ~t.properties.present THEN "unknown"
    ELSE LET exclusion_value == Get(t.properties, cfg.exclusion_property_name)
         IN  IF exclusion_value = None THEN "not_excluded"
             ELSE IF Lower(StrOf(exclusion_value)) = true_str THEN "excluded"
             ELSE "not_excluded"

is_small_table_inclusive(cfg, t, threshold_bytes, size_bytes) ==
    IF ~cfg.exempt_small_tables THEN FALSE
    ELSE IF size_bytes.none THEN FALSE
    ELSE size_bytes.v <= threshold_bytes.v

\* The validator under tests/validators defines no is_small_table; its
\* unit tests call it.  Modelled from the specification (section 4.2).
is_small_table(cfg, t, threshold_bytes, size_bytes) ==
    IF ~cfg.exempt_small_tables THEN FALSE
    ELSE IF size_bytes.none THEN FALSE
    ELSE size_bytes.v < threshold_bytes.v

is_exempt_from_clustering_requirements(cfg, t) == has_cluster_exclusion(cfg, t)

should_enforce_clustering_requirements(cfg, t) ==
    ~is_exempt_from_clustering_requirements(cfg, t)

\* Both methods are declared `(self, table)`: a call that passes
\* threshold_bytes or size_bytes, positionally or by keyword, cannot be
\* bound to the signature and raises TypeError before the body runs.
BindsTableOnly(c) == ~c.threshold.given /\ ~c.size.given

call_is_exempt(cfg, t, c) ==
    IF BindsTableOnly(c)
    THEN Returned(is_exempt_from_clustering_requirements(cfg, t))
    ELSE Raised("TypeError")

call_should_enforce(cfg, t, c) ==
    IF BindsTableOnly(c)
    THEN Returned(should_enforce_clustering_requirements(cfg, t))
    ELSE Raised("TypeError")

(***************************************************************************)
(* Specification of the exemption methods                                  *)
(***************************************************************************)
\* exclusion_property_name is configurable: the default name or a custom one
ExemptionConfigs ==
    { [ClusteringConfig(honor, exempt, TRUE) EXCEPT !.exclusion_property_name = name] :
        honor \in BOOLEAN, exempt \in BOOLEAN, name \in ExclusionKeys }

\* How a caller may pass the two size arguments of the exemption methods
ExemptionCalls(op) ==
    { InvokeSized(op, th, sz) :
        th \in ThresholdArgs \cup {Omitted, ArgNone},
        sz \in SizeArgs \cup {Omitted} }

InitExemption ==
    /\ table \in ExemptionTables
    /\ config \in ExemptionConfigs
    /\ call = NoCall
    /\ result = Returned(FALSE)
    /\ NothingRecorded

HasClusterExclusion ==
    /\ call = NoCall
    /\ call' = Invoke("has_cluster_exclusion")
    /\ result' = Returned(has_cluster_exclusion(config, table))
    /\ UNCHANGED <<table, config, reporting, client>>

GetClusterExclusionStatus ==
    /\ call = NoCall
    /\ call' = Invoke("get_cluster_exclusion_status")
    /\ result' = Returned(get_cluster_exclusion_status(config, table))
    /\ UNCHANGED <<table, config, reporting, client>>

IsSmallTable ==
    \E th \in ThresholdArgs, sz \in SizeArgs :
        /\ call = NoCall
        /\ call' = InvokeSized("is_small_table", th, sz)
        /\ result' = Returned(is_small_table(config, table, th, sz))
        /\ UNCHANGED <<table, config, reporting, client>>

IsExemptFromClusteringRequirements ==
    \E c \in ExemptionCalls("is_exempt_from_clustering_requirements") :
        /\ call = NoCall
        /\ call' = c
        /\ result' = call_is_exempt(config, table, c)
        /\ UNCHANGED <<table, config, reporting, client>>

ShouldEnforceClusteringRequirements ==
    \E c \in ExemptionCalls("should_enforce_clustering_requirements") :
        /\ call = NoCall
        /\ call' = c
        /\ result' = call_should_enforce(config, table, c)
        /\ UNCHANGED <<table, config, reporting, client>>

\* The call has returned and the caller is ready for the next one.
Return ==
    /\ call # NoCall
    /\ call' = NoCall
    /\ result' = Returned(FALSE)
    /\ UNCHANGED <<table, config, reporting, client>>

NextExemption ==
    \/ Return
    \/ HasClusterExclusion
    \/ GetClusterExclusionStatus
    \/ IsSmallTable
    \/ IsExemptFromClusteringRequirements
    \/ ShouldEnforceClusteringRequirements

SpecExemption == InitExemption /\ [][NextExemption]_vars

(***************************************************************************)
(* Claims on the exemption methods                                         *)
(***************************************************************************)
ThresholdGiven(c) == c.threshold.given /\ ~c.threshold.none

\* C1: is_exempt_from_clustering_requirements(table, threshold_bytes,
\* size_bytes) returns true iff has_cluster_exclusion(table) or
\* (threshold_bytes is given and is_small_table(table, threshold_bytes,
\* size_bytes)).
C1_ExemptIffExcludedOrSmall ==
    call.op = "is_exempt_from_clustering_requirements" =>
        /\ result.exc = "none"
        /\ result.val = ( \/ has_cluster_exclusion(config, table)
                          \/ /\ ThresholdGiven(call)
                             /\ is_small_table(config, table, call.threshold, call.size) )

\* C2: for every table and every way of passing the size arguments,
\* should_enforce_clustering_requirements returns the negation of what
\* is_exempt_from_clustering_requirements returns for the same arguments.
C2_EnforceIsNegationOfExempt ==
    call.op = "should_enforce_clustering_requirements" =>
        LET exempt == call_is_exempt(config, table, call)
        IN  /\ result.exc = "none"
            /\ exempt.exc = "none"
            /\ result.val = ~exempt.val

\* C3: a table with a manual exclusion is exempt whatever size arguments
\* are passed (above the threshold, below it, or None).
C3_ExclusionAlwaysExempt ==
    ( /\ call.op = "is_exempt_from_clustering_requirements"
      /\ has_cluster_exclusion(config, table) ) =>
        /\ result.exc = "none"
        /\ result.val = TRUE

\* C4: is_small_table is false when exempt_small_tables is off and false
\* when size_bytes is None; otherwise it is true iff size_bytes <
\* threshold_bytes: a size equal to the threshold is not small, zero and
\* negative sizes are.
C4_SmallTableStrictThreshold ==
    call.op = "is_small_table" =>
        /\ result.exc = "none"
        /\ ~config.exempt_small_tables => result.val = FALSE
        /\ call.size.none => result.val = FALSE
        /\ (config.exempt_small_tables /\ ~call.size.none) =>
              /\ result.val = (call.size.v < call.threshold.v)
              /\ call.size.v = call.threshold.v => result.val = FALSE
              /\ call.size.v <= 0 => result.val = TRUE

C4_Witness ==
    /\ call.op = "is_small_table"
    /\ config.exempt_small_tables
    /\ call.size = ArgInt(size_threshold_bytes)
    /\ call.threshold = ArgInt(size_threshold_bytes)
    /\ result = Returned(FALSE)

(***************************************************************************)
(* json.loads, for the JSON texts a clustering property can hold: arrays,  *)
(* strings without escapes, integers, true, false and null, with           *)
(* whitespace between the tokens. An integer of more than MaxStrDigits     *)
(* digits makes the conversion of its digits raise ValueError.             *)
(***************************************************************************)
MaxStrDigits == 4300

IsJsonSpace(c) == c \in {" ", "\t", "\n", "\r"}

IsDigit(c) == \E d \in DOMAIN DigitChars : DigitChars[d] = c

DigitValue(c) == (CHOOSE d \in DOMAIN DigitChars : DigitChars[d] = c) - 1

Parsed(v, next) == [ok |-> TRUE, v |-> v, next |-> next, exc |-> "none"]

ParseError == [ok |-> FALSE, v |-> None, next |-> 0, exc |-> "JSONDecodeError"]

IntegerTooLong == [ok |-> FALSE, v |-> None, next |-> 0, exc |-> "ValueError"]

RECURSIVE SkipWs(_, _)
SkipWs(chars, i) ==
    IF i <= Len(chars) /\ IsJsonSpace(chars[i]) THEN SkipWs(chars, i + 1) ELSE i

HasPrefixAt(chars, i, word) ==
    /\ i + Len(word) - 1 <= Len(chars)
    /\ SubSeq(chars, i, i + Len(word) - 1) = word

\* The end of the run of digits that starts at i
RECURSIVE DigitsEnd(_, _)
DigitsEnd(chars, i) ==
    IF i <= Len(chars) /\ IsDigit(chars[i]) THEN DigitsEnd(chars, i + 1) ELSE i

RECURSIVE DigitsValue(_, _, _, _)
DigitsValue(chars, i, end, acc) ==
    IF i >= end THEN acc
    ELSE DigitsValue(chars, i + 1, end, acc * 10 + DigitValue(chars[i]))

\* More than MaxStrDigits digits start at i
ExceedsMaxStrDigits(chars, i) ==
    /\ i + MaxStrDigits <= Len(chars)
    /\ \A j \in i..(i + MaxStrDigits) : IsDigit(chars[j])

\* An integer at i: -?(0|[1-9][0-9]*)
ParseNumber(chars, i) ==
    LET neg   == chars[i] = "-"
        first == IF neg THEN i + 1 ELSE i
        zero  == first <= Len(chars) /\ chars[first] = "0"
        end   == IF zero THEN first + 1 ELSE DigitsEnd(chars, first)
        value == DigitsValue(chars, first, end, 0)
    IN  IF ~zero /\ ExceedsMaxStrDigits(chars, first) THEN IntegerTooLong
        ELSE IF end = first THEN ParseError
        ELSE Parsed(PyInt(IF neg THEN 0 - value ELSE value), end)

\* A string at i (chars[i] is the opening quote): up to the next quote
ParseString(chars, i) ==
    IF \E k \in (i + 1)..Len(chars) : chars[k] = "\""
    THEN LET close == CHOOSE k \in (i + 1)..Len(chars) :
                          /\ chars[k] = "\""
                          /\ \A j \in (i + 1)..(k - 1) : chars[j] # "\""
         IN  Parsed(PyStr(SubSeq(chars, i + 1, close - 1)), close + 1)
    ELSE ParseError

RECURSIVE ParseValue(_, _), ParseElements(_, _, _)
ParseValue(chars, i) ==
    IF i > Len(chars) THEN ParseError
    ELSE IF chars[i] = "[" THEN
        LET j == SkipWs(chars, i + 1)
        IN  IF j <= Len(chars) /\ chars[j] = "]"
            THEN Parsed(PyList(<<>>), j + 1)
            ELSE ParseElements(chars, j, <<>>)
    ELSE IF chars[i] = "\"" THEN ParseString(chars, i)
    ELSE IF HasPrefixAt(chars, i, <<"t","r","u","e">>) THEN Parsed(PyBool(TRUE), i + 4)
    ELSE IF HasPrefixAt(chars, i, <<"f","a","l","s","e">>) THEN Parsed(PyBool(FALSE), i + 5)
    ELSE IF HasPrefixAt(chars, i, <<"n","u","l","l">>) THEN Parsed(None, i + 4)
    ELSE IF chars[i] = "-" \/ IsDigit(chars[i]) THEN ParseNumber(chars, i)
    ELSE ParseError

\* The elements of an array from i on, after those in acc
ParseElements(chars, i, acc) ==
    LET element == ParseValue(chars, i)
        j == SkipWs(chars, element.next)
    IN  IF ~element.ok THEN element
        ELSE IF j > Len(chars) THEN ParseError
        ELSE IF chars[j] = "]" THEN Parsed(PyList(Append(acc, element.v)), j + 1)
        ELSE IF chars[j] = "," THEN
            ParseElements(chars, SkipWs(chars, j + 1), Append(acc, element.v))
        ELSE ParseError

\* json.loads(chars): ok is FALSE where it raises, exc the exception
JsonLoads(chars) ==
    LET value == ParseValue(chars, SkipWs(chars, 1))
    IN  IF ~value.ok THEN value
        ELSE IF SkipWs(chars, value.next) > Len(chars) THEN value
        ELSE ParseError

(***************************************************************************)
(* Clustering detection methods                                            *)
(***************************************************************************)
\* except (json.JSONDecodeError, TypeError)
Caught(exc) == exc \in {"JSONDecodeError", "TypeError"}

\* The try statement around json.loads, from what json.loads did
TryLoads(loaded) ==
    IF loaded.ok THEN Returned(IF loaded.v.k = "list" THEN loaded.v.l ELSE <<>>)
    ELSE IF Caught(loaded.exc) THEN Returned(<<>>)
    ELSE Raised(loaded.exc)

_parse_clustering_data(cfg, t) ==
    IF PropsFalsy(t.properties) THEN Returned(<<>>)
    ELSE LET clustering_raw == Get(t.properties, cfg.clustering_property_name)
         IN  IF ~Truthy(clustering_raw) THEN Returned(<<>>)
             ELSE IF clustering_raw.k = "str" THEN TryLoads(JsonLoads(clustering_raw.s))
             ELSE IF clustering_raw.k = "list" THEN Returned(clustering_raw.l)
             ELSE Returned(<<>>)

\* The rest of a method after a call that returned or raised: an exception
\* passes through, a value goes on
Propagating(outcome, value) == IF outcome.exc # "none" THEN outcome ELSE Returned(value)

has_clustering_columns(cfg, t) ==
    Propagating(_parse_clustering_data(cfg, t), _parse_clustering_data(cfg, t).val # <<>>)

RECURSIVE FirstOfGroups(_)
FirstOfGroups(clustering_data) ==
    IF clustering_data = <<>> THEN <<>>
    ELSE LET cluster_group == Head(clustering_data)
         IN  IF cluster_group.k = "list" /\ Len(cluster_group.l) > 0
             THEN <<cluster_group.l[1]>> \o FirstOfGroups(Tail(clustering_data))
             ELSE FirstOfGroups(Tail(clustering_data))

get_clustering_columns(cfg, t) ==
    Propagating(_parse_clustering_data(cfg, t),
                FirstOfGroups(_parse_clustering_data(cfg, t).val))

count_clustering_columns(cfg, t) ==
    Propagating(get_clustering_columns(cfg, t), Len(get_clustering_columns(cfg, t).val))

validates_clustering_column_limits(cfg, t) ==
    Propagating(count_clustering_columns(cfg, t),
                count_clustering_columns(cfg, t).val <= cfg.max_clustering_columns)

\* The shape shared by has_auto_clustering, has_optimize_write and
\* has_auto_compact: the property's value, as a lower-cased string, equals
\* the expected value.
FlagEnabled_case_sensitive(t, property, expected) ==
    IF ~t.properties.present THEN FALSE
    ELSE LET value == Get(t.properties, property)
         IN  IF ~Truthy(value) THEN FALSE
             ELSE StrOf(value) = StrOf(expected)

FlagEnabled(t, property, expected) ==
    IF ~t.properties.present THEN FALSE
    ELSE LET value == Get(t.properties, property)
         IN  IF ~Truthy(value) THEN FALSE
             ELSE Lower(StrOf(value)) = Lower(StrOf(expected))

has_auto_clustering_any_truthy(cfg, t) ==
    IF ~t.properties.present THEN FALSE
    ELSE Truthy(Get(t.properties, cfg.cluster_by_auto_property))

has_auto_clustering(cfg, t) ==
    FlagEnabled(t, cfg.cluster_by_auto_property, cfg.cluster_by_auto_value)

get_auto_clustering_status_falsy_properties(cfg, t) ==
    IF PropsFalsy(t.properties) THEN "unknown"
    ELSE IF FlagEnabled(t, cfg.cluster_by_auto_property, cfg.cluster_by_auto_value)
    THEN "enabled"
    ELSE "disabled"

get_auto_clustering_status(cfg, t) ==
    IF ~t.properties.present THEN "unknown"
    ELSE LET cluster_by_auto_value == Get(t.properties, cfg.cluster_by_auto_property)
         IN  IF cluster_by_auto_value = None THEN "disabled"
             ELSE IF Lower(StrOf(cluster_by_auto_value)) = Lower(StrOf(cfg.cluster_by_auto_value))
             THEN "enabled"
             ELSE "disabled"

has_optimize_write(cfg, t) ==
    FlagEnabled(t, cfg.optimize_write_property, cfg.optimize_write_value)

has_auto_compact(cfg, t) ==
    FlagEnabled(t, cfg.auto_compact_property, cfg.auto_compact_value)

has_delta_auto_optimization_always_both(cfg, t) ==
    has_optimize_write(cfg, t) /\ has_auto_compact(cfg, t)

has_delta_auto_optimization(cfg, t) ==
    IF cfg.require_both_delta_flags
    THEN has_optimize_write(cfg, t) /\ has_auto_compact(cfg, t)
    ELSE has_optimize_write(cfg, t) \/ has_auto_compact(cfg, t)

get_delta_auto_optimization_status(cfg, t) ==
    [ has_optimize_write          |-> has_optimize_write(cfg, t),
      has_auto_compact            |-> has_auto_compact(cfg, t),
      has_delta_auto_optimization |-> has_delta_auto_optimization(cfg, t),
      optimize_write_property     |-> cfg.optimize_write_property,
      auto_compact_property       |-> cfg.auto_compact_property,
      require_both_flags          |-> cfg.require_both_delta_flags ]

has_any_clustering_approach_without_delta(cfg, t) ==
    Propagating(has_clustering_columns(cfg, t),
                \/ has_clustering_columns(cfg, t).val
                \/ has_auto_clustering(cfg, t))

has_any_clustering_approach(cfg, t) ==
    Propagating(has_clustering_columns(cfg, t),
                \/ has_clustering_columns(cfg, t).val
                \/ has_auto_clustering(cfg, t)
                \/ has_delta_auto_optimization(cfg, t))

(***************************************************************************)
(* Specification of the clustering detection                               *)
(***************************************************************************)
Col(name) == PyList(<<PyStr(<<name>>)>>)

\* An integer of one digit more than the conversion accepts
LongInteger == [i \in 1..(MaxStrDigits + 1) |-> "1"]

\* Values of the clustering property: JSON texts (valid and not), native
\* nested lists, and values of other types.
ClusteringValues ==
    { PyStr(<<"[","[","\"","c","\"","]",",","[","\"","d","\"","]","]">>),
      PyStr(<<"[","[","\"","c","\"","]","]">>),
      PyStr(<<"[","]">>),
      PyStr(<<"[","[","]","]">>),
      PyStr(<<"[","[","]",",","[","\"","c","\"","]",",","[","]","]">>),
      PyStr(<<" ","["," ","[","\"","c","\"","]"," ",","," ","[","\"","d","\"","]"," ","]"," ">>),
      PyStr(<<"[","[","\"","c","\"","]">>),
      PyStr(<<"[","[","\"","c","\"","]",",","]">>),
      PyStr(<<"c">>),
      PyStr(<<"\"","c","\"">>),
      PyStr(<<"5">>),
      PyStr(<<"n","u","l","l">>),
      PyStr(<<"t","r","u","e">>),
      PyStr(<<"[","[","\"","c","\"","]",",">> \o LongInteger \o <<"]">>),
      PyStr(<<>>) }
    \cup
    { PyList(<<>>), PyList(<<Col("c")>>), PyList(<<Col("c"), Col("d")>>),
      PyList(<<PyList(<<>>)>>),
      PyList(<<PyList(<<>>), Col("c"), PyList(<<>>)>>),
      PyList(<<PyList(<<PyStr(<<"c">>), PyStr(<<"d">>)>>)>>),
      PyList(<<PyStr(<<"c">>)>>),
      PyInt(5), None }

\* Values of the two delta.autoOptimize properties
DeltaFlagValues ==
    { PyStr(<<"t","r","u","e">>), PyStr(<<"T","R","U","E">>),
      PyStr(<<"f","a","l","s","e">>), PyStr(<<>>), PyBool(TRUE) }

ClusteringPropertyValues ==
    [ clusteringColumns |-> ClusteringValues,
      clusterByAuto |-> FlagValues ]
    @@ ( "delta.autoOptimize.optimizeWrite" :> DeltaFlagValues )
    @@ ( "delta.autoOptimize.autoCompact" :> DeltaFlagValues )
    @@ ( "cluster_exclusion" :> DeltaFlagValues )

ClusteringTables ==
    { TableInfo(None, <<>>, p) :
        p \in {NoProperties} \cup
              { Props(m) : m \in DictsOver(ClusteringPropertyValues) } }

ClusteringConfigs ==
    { ClusteringConfig(honor, TRUE, both) : honor \in BOOLEAN, both \in BOOLEAN }

InitClustering ==
    /\ table \in ClusteringTables
    /\ config \in ClusteringConfigs
    /\ call = NoCall
    /\ result = Returned(FALSE)
    /\ NothingRecorded

\* A method that takes the table only is called and returns value
Calls(op, value) ==
    /\ call = NoCall
    /\ call' = Invoke(op)
    /\ result' = Returned(value)
    /\ UNCHANGED <<table, config, reporting, client>>

\* A method that takes the table only is called and returns or raises
CallsOutcome(op, outcome) ==
    /\ call = NoCall
    /\ call' = Invoke(op)
    /\ result' = outcome
    /\ UNCHANGED <<table, config, reporting, client>>

HasClusteringColumns ==
    CallsOutcome("has_clustering_columns", has_clustering_columns(config, table))

GetClusteringColumns ==
    CallsOutcome("get_clustering_columns", get_clustering_columns(config, table))

CountClusteringColumns ==
    CallsOutcome("count_clustering_columns", count_clustering_columns(config, table))

ValidatesClusteringColumnLimits ==
    CallsOutcome("validates_clustering_column_limits",
                 validates_clustering_column_limits(config, table))

HasAutoClustering ==
    Calls("has_auto_clustering", has_auto_clustering(config, table))

GetAutoClusteringStatus ==
    Calls("get_auto_clustering_status", get_auto_clustering_status(config, table))

HasOptimizeWrite ==
    Calls("has_optimize_write", has_optimize_write(config, table))

HasAutoCompact ==
    Calls("has_auto_compact", has_auto_compact(config, table))

HasDeltaAutoOptimization ==
    Calls("has_delta_auto_optimization", has_delta_auto_optimization(config, table))

GetDeltaAutoOptimizationStatus ==
    Calls("get_delta_auto_optimization_status",
          get_delta_auto_optimization_status(config, table))

HasAnyClusteringApproach ==
    CallsOutcome("has_any_clustering_approach", has_any_clustering_approach(config, table))

NextClustering ==
    \/ Return
    \/ HasClusteringColumns
    \/ GetClusteringColumns
    \/ CountClusteringColumns
    \/ ValidatesClusteringColumnLimits
    \/ HasAutoClustering
    \/ GetAutoClusteringStatus
    \/ HasOptimizeWrite
    \/ HasAutoCompact
    \/ HasDeltaAutoOptimization
    \/ GetDeltaAutoOptimizationStatus
    \/ HasAnyClusteringApproach
    \/ HasClusterExclusion

SpecClustering == InitClustering /\ [][NextClustering]_vars

(***************************************************************************)
(* Documentation validator: table comments                                 *)
(***************************************************************************)
MaxCommentLen == 4

\* Characters of the comments tried: both casings of the letters of the
\* placeholder tokens, a colon and a space.
CommentAlphabet == {"N", "A", "n", "a", ":", " "}

Comments ==
    {None} \cup
    { PyStr(chars) :
        chars \in UNION { [1..len -> CommentAlphabet] : len \in 0..MaxCommentLen } }

\* placeholder_detection.patterns of the configuration file: the token in
\* upper case, in lower case, and a list of two tokens
PlaceholderPatternLists ==
    { << <<"N","A">> >>, << <<"n","a">> >>, << <<"n","a">>, <<"n","a","n">> >> }

\* critical_column_patterns of the configuration file: an identity pattern
\* matched on word boundaries and a PII pattern matched as a substring
DefaultCriticalPatterns ==
    << [pattern |-> <<"i","d">>, word_boundary |-> TRUE],
       [pattern |-> <<"e","m","a","i","l">>, word_boundary |-> FALSE] >>

table_has_comment_key == <<"t","a","b","l","e","_","h","a","s","_","c","o","m","m","e","n","t">>

table_comment_length_key == <<"t","a","b","l","e","_","c","o","m","m","e","n","t","_","l","e","n","g","t","h">>

no_placeholder_comments_key == <<"n","o","_","p","l","a","c","e","h","o","l","d","e","r","_","c","o","m","m","e","n","t","s">>

column_coverage_80_key == <<"c","o","l","u","m","n","_","c","o","v","e","r","a","g","e","_","8","0">>

critical_columns_documented_key == <<"c","r","i","t","i","c","a","l","_","c","o","l","u","m","n","s","_","d","o","c","u","m","e","n","t","e","d">>

column_coverage_ge_80 == <<"c","o","l","u","m","n","_","c","o","v","e","r","a","g","e"," ",">","="," ","8","0">>

\* The fallback list of ComprehensiveDocumentationValidator.__init__
DefaultRequiredChecks ==
    << table_has_comment_key, table_comment_length_key,
       no_placeholder_comments_key, column_coverage_ge_80,
       critical_columns_documented_key >>

DocumentationConfig(patterns, case_sensitive) ==
    [ minimum_comment_length           |-> 10,
      required_column_coverage_percent |-> 80,
      placeholder_patterns             |-> patterns,
      case_sensitive                   |-> case_sensitive,
      critical_column_patterns         |-> DefaultCriticalPatterns,
      required_checks                  |-> DefaultRequiredChecks ]

\* What str.strip() removes and what \s matches
IsSpace(c) == c \in {" ", "\t", "\n", "\r"}

RECURSIVE LStrip(_)
LStrip(chars) ==
    IF chars # <<>> /\ IsSpace(Head(chars)) THEN LStrip(Tail(chars)) ELSE chars

RECURSIVE RStrip(_)
RStrip(chars) ==
    IF chars # <<>> /\ IsSpace(chars[Len(chars)])
    THEN RStrip(SubSeq(chars, 1, Len(chars) - 1))
    ELSE chars

\* str.strip()
Strip(chars) == RStrip(LStrip(chars))

AllSpace(chars, from, to) == \A i \in from..to : IsSpace(chars[i])

SearchTokenColon_unanchored(pattern, chars) ==
    \E a \in 0..Len(chars), b \in 0..Len(chars) :
        /\ a + Len(pattern) + b + 1 <= Len(chars)
        /\ SubSeq(chars, a + 1, a + Len(pattern)) = pattern
        /\ AllSpace(chars, a + Len(pattern) + 1, a + Len(pattern) + b)
        /\ chars[a + Len(pattern) + b + 1] = ":"

\* re.search(rf"^\s*{pattern}\s*:", chars) for a pattern without regular
\* expression metacharacters: leading whitespace, the pattern, whitespace,
\* a colon, all from the start of the string.
SearchTokenColon(pattern, chars) ==
    \E a \in 0..Len(chars), b \in 0..Len(chars) :
        /\ a + Len(pattern) + b + 1 <= Len(chars)
        /\ AllSpace(chars, 1, a)
        /\ SubSeq(chars, a + 1, a + Len(pattern)) = pattern
        /\ AllSpace(chars, a + Len(pattern) + 1, a + Len(pattern) + b)
        /\ chars[a + Len(pattern) + b + 1] = ":"

\* re.search(rf"^\s*{pattern}\s*$", chars): the pattern alone, whitespace
\* around it.
SearchTokenOnly(pattern, chars) ==
    \E a \in 0..Len(chars) :
        /\ a + Len(pattern) <= Len(chars)
        /\ AllSpace(chars, 1, a)
        /\ SubSeq(chars, a + 1, a + Len(pattern)) = pattern
        /\ AllSpace(chars, a + Len(pattern) + 1, Len(chars))

has_comment(t) ==
    IF t.comment = None THEN FALSE ELSE Strip(t.comment.s) # <<>>

ExactPlaceholderMatch_raw_pattern(cfg, check_comment) ==
    \E i \in DOMAIN cfg.placeholder_patterns :
        check_comment = cfg.placeholder_patterns[i]

\* The loop over exact_patterns: check_comment == check_pattern
ExactPlaceholderMatch(cfg, check_comment) ==
    \E i \in DOMAIN cfg.placeholder_patterns :
        LET pattern == cfg.placeholder_patterns[i]
            check_pattern == IF cfg.case_sensitive THEN pattern ELSE Lower(pattern)
        IN  check_comment = check_pattern

\* any(re.search(phrase_pattern, check_comment) ...): the phrases are built
\* from the patterns as configured, not from check_pattern.
PlaceholderPhraseMatch(cfg, check_comment) ==
    \E i \in DOMAIN cfg.placeholder_patterns :
        LET pattern == cfg.placeholder_patterns[i]
        IN  \/ SearchTokenColon(pattern, check_comment)
            \/ SearchTokenOnly(pattern, check_comment)

has_placeholder_comment(cfg, t) ==
    IF t.comment = None THEN FALSE
    ELSE IF Strip(t.comment.s) = <<>> THEN FALSE
    ELSE LET comment == Strip(t.comment.s)
             comment_lower == Lower(comment)
             check_comment == IF cfg.case_sensitive THEN comment ELSE comment_lower
         IN  IF ExactPlaceholderMatch(cfg, check_comment) THEN TRUE
             ELSE PlaceholderPhraseMatch(cfg, check_comment)

has_minimum_length_of_stripped(cfg, t) ==
    IF t.comment = None THEN FALSE
    ELSE Len(Strip(t.comment.s)) >= cfg.minimum_comment_length

has_minimum_length(cfg, t) ==
    IF t.comment = None THEN FALSE
    ELSE Len(t.comment.s) >= cfg.minimum_comment_length

(***************************************************************************)
(* Documentation validator: columns                                        *)
(***************************************************************************)
ColumnInfo(name, comment) == [name |-> name, type_text |-> "string", comment |-> comment]

ColumnDocumented_without_strip(col) ==
    /\ col.comment # None
    /\ col.comment.s # <<>>

\* bool(col.comment and col.comment.strip())
ColumnDocumented(col) ==
    /\ col.comment # None
    /\ col.comment.s # <<>>
    /\ Strip(col.comment.s) # <<>>

\* `pattern in chars`
Contains(chars, pattern) ==
    \E i \in 0..(Len(chars) - Len(pattern)) :
        SubSeq(chars, i + 1, i + Len(pattern)) = pattern

StartsWith(chars, prefix) ==
    /\ Len(prefix) <= Len(chars)
    /\ SubSeq(chars, 1, Len(prefix)) = prefix

EndsWith(chars, suffix) ==
    /\ Len(suffix) <= Len(chars)
    /\ SubSeq(chars, Len(chars) - Len(suffix) + 1, Len(chars)) = suffix

WordBoundaryMatch_substring(pattern, column_name_lower) ==
    Contains(column_name_lower, pattern)

\* any(re.search(wp, column_name_lower) for wp in word_patterns), the
\* six word_patterns in the order of the source
WordBoundaryMatch(pattern, column_name_lower) ==
    \/ column_name_lower = pattern
    \/ StartsWith(column_name_lower, pattern \o <<"_">>)
    \/ Contains(column_name_lower, <<"_">> \o pattern \o <<"_">>)
    \/ EndsWith(column_name_lower, <<"_">> \o pattern)
    \/ EndsWith(column_name_lower, pattern)
    \/ /\ StartsWith(column_name_lower, pattern)
       /\ Len(column_name_lower) > Len(pattern)
       /\ IsUpper(column_name_lower[Len(pattern) + 1])

_is_column_critical(column_name_lower, patterns_with_boundaries) ==
    \E i \in DOMAIN patterns_with_boundaries :
        LET pattern == Lower(patterns_with_boundaries[i].pattern)
        IN  IF patterns_with_boundaries[i].word_boundary
            THEN WordBoundaryMatch(pattern, column_name_lower)
            ELSE Contains(column_name_lower, pattern)

RECURSIVE UndocumentedCritical(_, _)
UndocumentedCritical(cfg, columns) ==
    IF columns = <<>> THEN <<>>
    ELSE LET col == Head(columns)
             is_critical == _is_column_critical(Lower(col.name), cfg.critical_column_patterns)
         IN  IF is_critical /\ ~ColumnDocumented(col)
             THEN <<col.name>> \o UndocumentedCritical(cfg, Tail(columns))
             ELSE UndocumentedCritical(cfg, Tail(columns))

get_undocumented_critical_columns(cfg, t) ==
    IF t.columns = <<>> THEN <<>> ELSE UndocumentedCritical(cfg, t.columns)

has_all_critical_columns_documented(cfg, t) ==
    Len(get_undocumented_critical_columns(cfg, t)) = 0

(***************************************************************************)
(* Python floats (IEEE 754 binary64, round to nearest even) for the values *)
(* the coverage computation produces. A float is mant * 2^exp with a       *)
(* mantissa of MantissaBits bits held in three limbs, high, mid and low,   *)
(* the lower two of LimbBits bits; the top bit of a nonzero float is set.  *)
(* Every intermediate value stays below 2^31.                              *)
(***************************************************************************)
MantissaBits == 53

LimbBits == 18

TopLimbBits == MantissaBits - 2 * LimbBits

RECURSIVE Pow2(_)
Pow2(k) == IF k = 0 THEN 1 ELSE 2 * Pow2(k - 1)

LimbBase == Pow2(LimbBits)

TopLimbBase == Pow2(TopLimbBits)

Float(high, mid, low, exp) == [high |-> high, mid |-> mid, low |-> low, exp |-> exp]

FloatZero == Float(0, 0, 0, 0)

\* The number of binary digits of n
RECURSIVE BitLength(_)
BitLength(n) == IF n = 0 THEN 0 ELSE 1 + BitLength(n \div 2)

\* The mantissa plus one; a mantissa of all ones becomes the next power of two
Increment(high, mid, low, exp) ==
    IF low + 1 < LimbBase THEN Float(high, mid, low + 1, exp)
    ELSE IF mid + 1 < LimbBase THEN Float(high, mid + 1, 0, exp)
    ELSE IF high + 1 < TopLimbBase THEN Float(high + 1, 0, 0, exp)
    ELSE Float(TopLimbBase \div 2, 0, 0, exp + 1)

\* The float nearest to the mantissa followed by the guard bit and, when
\* sticky, by further nonzero bits. Ties go to the even mantissa.
RoundNearestEven(high, mid, low, guard, sticky, exp) ==
    IF guard = 1 /\ (sticky \/ low % 2 = 1)
    THEN Increment(high, mid, low, exp)
    ELSE Float(high, mid, low, exp)

\* float(n) for a natural number below 2^TopLimbBits
FloatOfNat(n) ==
    IF n = 0 THEN FloatZero
    ELSE Float(n * Pow2(TopLimbBits - BitLength(n)), 0, 0, BitLength(n) - MantissaBits)

\* The shift that brings numerator * 2^shift into [denominator, 2 * denominator)
RECURSIVE NormShift(_, _)
NormShift(numerator, denominator) ==
    IF numerator >= denominator THEN 0 ELSE 1 + NormShift(2 * numerator, denominator)

\* numerator / denominator for integers 0 <= numerator <= denominator,
\* 0 < denominator < 2^12: long division, limb by limb, of the numerator
\* shifted into [denominator, 2 * denominator), giving MantissaBits + 1
\* quotient bits of which the last is the guard bit
FloatDivide(numerator, denominator) ==
    IF numerator = 0 THEN FloatZero
    ELSE LET shift == NormShift(numerator, denominator)
             rem == numerator * Pow2(shift)
             q1 == (rem * (LimbBase \div 2)) \div denominator
             r1 == (rem * (LimbBase \div 2)) % denominator
             q2 == (r1 * LimbBase) \div denominator
             r2 == (r1 * LimbBase) % denominator
             q3 == (r2 * LimbBase) \div denominator
             r3 == (r2 * LimbBase) % denominator
         IN  RoundNearestEven(q1 \div 2,
                              (q1 % 2) * (LimbBase \div 2) + q2 \div 2,
                              (q2 % 2) * (LimbBase \div 2) + q3 \div 2,
                              q3 % 2, r3 # 0,
                              0 - (MantissaBits - 1 + shift))

\* f * float(factor) for a natural factor, 0 < factor < 2^12: the exact
\* product limb by limb, the lowest first, then rounded to MantissaBits bits
FloatTimesNat(f, factor) ==
    IF f = FloatZero THEN FloatZero
    ELSE LET low == f.low * factor
             mid == f.mid * factor + low \div LimbBase
             high == f.high * factor + mid \div LimbBase
             extra == BitLength(high \div TopLimbBase)
             drop == Pow2(extra)
         IN  IF extra = 0 THEN Float(high, mid % LimbBase, low % LimbBase, f.exp)
             ELSE RoundNearestEven(
                      high \div drop,
                      (high % drop) * (LimbBase \div drop) + (mid % LimbBase) \div drop,
                      (mid % drop) * (LimbBase \div drop) + (low % LimbBase) \div drop,
                      (low % drop) \div (drop \div 2),
                      low % (drop \div 2) # 0,
                      f.exp + extra)

\* The integer part of a float in [0, 2^TopLimbBits)
FloatFloor(f) ==
    IF f = FloatZero \/ MantissaBits + f.exp <= 0 THEN 0
    ELSE f.high \div Pow2(0 - f.exp - 2 * LimbBits)

\* f >= float(n) for a natural number n and f in [0, 2^TopLimbBits)
FloatGeNat(f, n) == FloatFloor(f) >= n

documented_count(t) ==
    Cardinality({ i \in DOMAIN t.columns : ColumnDocumented(t.columns[i]) })

calculate_column_documentation_percentage(t) ==
    IF t.columns = <<>> THEN FloatOfNat(100)
    ELSE FloatTimesNat(FloatDivide(documented_count(t), Len(t.columns)), 100)

\* The threshold is a whole number of percent, or omitted / None and then
\* read from the configuration
meets_column_documentation_threshold(cfg, t, threshold) ==
    LET limit == IF threshold.none THEN cfg.required_column_coverage_percent
                 ELSE threshold.v
        actual_percentage == calculate_column_documentation_percentage(t)
    IN  FloatGeNat(actual_percentage, limit)

RECURSIVE UndocumentedColumns(_)
UndocumentedColumns(columns) ==
    IF columns = <<>> THEN <<>>
    ELSE IF ~ColumnDocumented(Head(columns))
         THEN <<Head(columns).name>> \o UndocumentedColumns(Tail(columns))
         ELSE UndocumentedColumns(Tail(columns))

get_undocumented_columns(t) == UndocumentedColumns(t.columns)

(***************************************************************************)
(* Specification of the placeholder detection                              *)
(***************************************************************************)
PlaceholderConfigs ==
    { DocumentationConfig(patterns, cs) :
        patterns \in PlaceholderPatternLists, cs \in BOOLEAN }

InitPlaceholder ==
    /\ table \in { TableInfo(c, <<>>, NoProperties) : c \in Comments }
    /\ config \in PlaceholderConfigs
    /\ call = NoCall
    /\ result = Returned(FALSE)
    /\ NothingRecorded

HasComment ==
    /\ call = NoCall
    /\ call' = Invoke("has_comment")
    /\ result' = Returned(has_comment(table))
    /\ UNCHANGED <<table, config, reporting, client>>

HasPlaceholderComment ==
    /\ call = NoCall
    /\ call' = Invoke("has_placeholder_comment")
    /\ result' = Returned(has_placeholder_comment(config, table))
    /\ UNCHANGED <<table, config, reporting, client>>

NextPlaceholder ==
    \/ Return
    \/ HasComment
    \/ HasPlaceholderComment

SpecPlaceholder == InitPlaceholder /\ [][NextPlaceholder]_vars

(***************************************************************************)
(* Claims on the placeholder detection                                     *)
(***************************************************************************)
\* The comparison the configuration asks for: as written when
\* case_sensitive is set, ignoring case otherwise.
Fold(cfg, chars) == IF cfg.case_sensitive THEN chars ELSE Lower(chars)

Tokens(cfg) == { cfg.placeholder_patterns[i] : i \in DOMAIN cfg.placeholder_patterns }

\* chars is the token, optional whitespace, a colon, and anything after it
TokenThenColon(token, chars) ==
    \E colon \in (Len(token) + 1)..Len(chars) :
        /\ SubSeq(chars, 1, Len(token)) = token
        /\ \A i \in (Len(token) + 1)..(colon - 1) : IsSpace(chars[i])
        /\ chars[colon] = ":"

PlaceholderCalled == call.op = "has_placeholder_comment"

\* C8: for every configured token T, a comment that starts with T (in any
\* casing, under the default case-insensitive configuration), optional
\* whitespace and a colon is a placeholder comment.
C8_TokenColonPrefixFlagged ==
    ( /\ PlaceholderCalled
      /\ ~config.case_sensitive
      /\ table.comment # None
      /\ \E token \in Tokens(config) :
            TokenThenColon(Lower(token), Lower(table.comment.s)) ) =>
        result = Returned(TRUE)

\* C9: a comment that, once trimmed, equals a configured token is a
\* placeholder comment; case is ignored unless case_sensitive is set.
C9_ExactTokenFlagged ==
    ( /\ PlaceholderCalled
      /\ table.comment # None
      /\ \E token \in Tokens(config) :
            Fold(config, Strip(table.comment.s)) = Fold(config, token) ) =>
        result = Returned(TRUE)

C9_Witness ==
    /\ PlaceholderCalled
    /\ ~config.case_sensitive
    /\ config.placeholder_patterns = << <<"N","A">> >>
    /\ table.comment = PyStr(<<" ","n","A"," ">>)
    /\ result = Returned(TRUE)

\* C10: has_placeholder_comment is false for a None comment, for a blank
\* comment, and for every comment that neither equals a token nor starts
\* with a token followed by optional whitespace and a colon: a token later
\* in the comment, or inside a longer word, does not flag it.
C10_OnlyTokenAtStartFlagged ==
    ( /\ PlaceholderCalled
      /\ result = Returned(TRUE) ) =>
        /\ table.comment # None
        /\ Strip(table.comment.s) # <<>>
        /\ \E token \in Tokens(config) :
              LET trimmed == Fold(config, Strip(table.comment.s))
              IN  \/ trimmed = Fold(config, token)
                  \/ TokenThenColon(Fold(config, token), trimmed)

C10_Witness ==
    /\ PlaceholderCalled
    /\ config.placeholder_patterns = << <<"N","A">> >>
    /\ table.comment = PyStr(<<"a"," ","N","A">>)
    /\ result = Returned(FALSE)

(***************************************************************************)
(* Comprehensive documentation validator                                   *)
(***************************************************************************)
MaxChecks == 2

MaxColumns == 1

column_coverage == <<"c","o","l","u","m","n","_","c","o","v","e","r","a","g","e">>

failed_prefix == <<"F","a","i","l","e","d",":"," ">>

IndividualKeys ==
    { table_has_comment_key, table_comment_length_key, no_placeholder_comments_key,
      column_coverage_80_key, critical_columns_documented_key }

_run_individual_validators(cfg, t) ==
    [ key \in IndividualKeys |->
        CASE key = table_has_comment_key -> has_comment(t)
          [] key = table_comment_length_key -> has_minimum_length(cfg, t)
          [] key = no_placeholder_comments_key -> ~has_placeholder_comment(cfg, t)
          [] key = column_coverage_80_key -> meets_column_documentation_threshold(cfg, t, ArgInt(80))
          [] key = critical_columns_documented_key ->
                has_all_critical_columns_documented(cfg, t) ]

\* `">=" in check`
HasGe(chars) == \E i \in 1..(Len(chars) - 1) : chars[i] = ">" /\ chars[i + 1] = "="

\* check.split(">=")
RECURSIVE SplitOnGe(_)
SplitOnGe(chars) ==
    IF HasGe(chars)
    THEN LET at == CHOOSE i \in 1..(Len(chars) - 1) :
                      /\ chars[i] = ">" /\ chars[i + 1] = "="
                      /\ \A j \in 1..(i - 1) : ~(chars[j] = ">" /\ chars[j + 1] = "=")
         IN  <<SubSeq(chars, 1, at - 1)>> \o SplitOnGe(SubSeq(chars, at + 2, Len(chars)))
    ELSE <<chars>>

\* float(chars) for the threshold texts tried: a run of decimal digits is
\* that number, anything else raises ValueError.
ParseFloat(chars) ==
    IF chars # <<>> /\ \A i \in DOMAIN chars : IsDigit(chars[i])
    THEN Returned(DigitsValue(chars, 1, Len(chars) + 1, 0))
    ELSE Raised("ValueError")

_evaluate_check(cfg, check, t, individual_results) ==
    IF check \in DOMAIN individual_results THEN Returned(individual_results[check])
    ELSE IF HasGe(check) THEN
        LET parts == SplitOnGe(check)
        IN  IF Len(parts) # 2 THEN Raised("ValueError")
            ELSE LET metric == Strip(parts[1])
                     threshold == ParseFloat(Strip(parts[2]))
                 IN  IF threshold.exc # "none" THEN threshold
                     ELSE IF metric = column_coverage
                     THEN Returned(meets_column_documentation_threshold(cfg, t, ArgInt(threshold.val)))
                     ELSE Returned(FALSE)
    ELSE Returned(FALSE)

ComprehensiveComplianceResult(t, overall_compliant, individual_results, failure_reasons) ==
    [ table              |-> t,
      overall_compliant  |-> overall_compliant,
      individual_results |-> individual_results,
      failure_reasons    |-> failure_reasons ]

\* The loop `for check in self._required_checks`, from the checks still to
\* evaluate and the two accumulators
RECURSIVE CheckLoop(_, _, _, _, _, _)
CheckLoop(cfg, t, individual_results, checks, overall_compliant, failure_reasons) ==
    IF checks = <<>>
    THEN Returned(ComprehensiveComplianceResult(
                      t, overall_compliant, individual_results, failure_reasons))
    ELSE LET check == Head(checks)
             passed == _evaluate_check(cfg, check, t, individual_results)
         IN  IF passed.exc # "none" THEN Raised(passed.exc)
             ELSE IF ~passed.val
             THEN CheckLoop(cfg, t, individual_results, Tail(checks), FALSE,
                            Append(failure_reasons, failed_prefix \o check))
             ELSE CheckLoop(cfg, t, individual_results, Tail(checks),
                            overall_compliant, failure_reasons)

evaluate_table_compliance_from_individual_results(cfg, t) ==
    LET individual_results == _run_individual_validators(cfg, t)
        outcome == CheckLoop(cfg, t, individual_results, cfg.required_checks, TRUE, <<>>)
    IN  IF outcome.exc # "none" THEN outcome
        ELSE Returned([outcome.val EXCEPT !.overall_compliant =
                           \A key \in IndividualKeys : individual_results[key]])

evaluate_table_compliance(cfg, t) ==
    CheckLoop(cfg, t, _run_individual_validators(cfg, t), cfg.required_checks, TRUE, <<>>)

(***************************************************************************)
(* Specification of the comprehensive validator                            *)
(***************************************************************************)
\* Entries of comprehensive_rules.required_checks: the known check names,
\* threshold expressions, and entries the dispatcher does not know
CheckStrings ==
    IndividualKeys \cup
    { column_coverage_ge_80,
      <<"c","o","l","u","m","n","_","c","o","v","e","r","a","g","e",">","=","5","0">>,
      <<"r","o","w","_","c","o","u","n","t"," ",">","="," ","8","0">>,
      <<"u","n","k","n","o","w","n","_","c","h","e","c","k">>,
      <<"c","o","l","u","m","n","_","c","o","v","e","r","a","g","e"," ",">","="," ","a","b","c">>,
      <<"c","o","l","u","m","n","_","c","o","v","e","r","a","g","e"," ",">","="," ","8","0"," ",">","="," ","9","0">> }

RequiredCheckLists ==
    {DefaultRequiredChecks} \cup
    UNION { [1..len -> CheckStrings] : len \in 0..MaxChecks }

ComprehensiveConfigs ==
    { [DocumentationConfig(<< <<"n","a">> >>, FALSE) EXCEPT !.required_checks = checks] :
        checks \in RequiredCheckLists }

TableComments ==
    { None, PyStr(<<" "," ">>), PyStr(<<"N","A">>),
      PyStr(<<"O","r","d","e","r","s">>),
      PyStr(<<"C","u","s","t","o","m","e","r","s",".">>),
      PyStr(<<"N","A",":"," ","t","o"," ","b","e"," ","d","e","s","c","r","i","b","e","d">>) }

Columns ==
    { ColumnInfo(name, comment) :
        name \in { <<"i","d">>, <<"q","t","y">> },
        comment \in { None, PyStr(<<"k","e","y">>) } }

ColumnLists == UNION { [1..len -> Columns] : len \in 0..MaxColumns }

ComprehensiveTables ==
    { TableInfo(comment, columns, NoProperties) :
        comment \in TableComments, columns \in ColumnLists }

InitComprehensive ==
    /\ table \in ComprehensiveTables
    /\ config \in ComprehensiveConfigs
    /\ call = NoCall
    /\ result = Returned(FALSE)
    /\ NothingRecorded

EvaluateTableCompliance ==
    /\ call = NoCall
    /\ call' = Invoke("evaluate_table_compliance")
    /\ result' = evaluate_table_compliance(config, table)
    /\ UNCHANGED <<table, config, reporting, client>>

NextComprehensive ==
    \/ Return
    \/ EvaluateTableCompliance

SpecComprehensive == InitComprehensive /\ [][NextComprehensive]_vars

(***************************************************************************)
(* Claims on the comprehensive validator                                   *)
(***************************************************************************)
ComplianceCalled == call.op = "evaluate_table_compliance"

\* What one required check evaluates to, on the results of the individual
\* validators of the table
CheckOutcome(check) ==
    _evaluate_check(config, check, table, _run_individual_validators(config, table))

CheckFails(check) == CheckOutcome(check) = Returned(FALSE)

FailingChecks == SelectSeq(config.required_checks, CheckFails)

\* C6: a returned compliance result has overall_compliant true iff every
\* required check evaluates true, failure_reasons holds exactly one
\* "Failed: <check>" per failing required check in the configured order,
\* and so overall_compliant is true iff failure_reasons is empty.
C6_CompliantIffNoFailureReasons ==
    (ComplianceCalled /\ result.exc = "none") =>
        /\ result.val.overall_compliant
             <=> \A i \in DOMAIN config.required_checks :
                     CheckOutcome(config.required_checks[i]) = Returned(TRUE)
        /\ result.val.failure_reasons
             = [ i \in DOMAIN FailingChecks |-> failed_prefix \o FailingChecks[i] ]
        /\ result.val.overall_compliant <=> result.val.failure_reasons = <<>>

\* Two required checks fail and are reported in the configured order while
\* every individual validator of the table passes.
C6_Witness ==
    /\ ComplianceCalled
    /\ result.exc = "none"
    /\ config.required_checks = << <<"u","n","k","n","o","w","n","_","c","h","e","c","k">>,
                                   <<"r","o","w","_","c","o","u","n","t"," ",">","="," ","8","0">> >>
    /\ \A key \in IndividualKeys : result.val.individual_results[key]
    /\ ~result.val.overall_compliant
    /\ result.val.failure_reasons
         = << failed_prefix \o <<"u","n","k","n","o","w","n","_","c","h","e","c","k">>,
              failed_prefix \o <<"r","o","w","_","c","o","u","n","t"," ",">","="," ","8","0">> >>

\* A required check the dispatcher does not recognise: not the name of an
\* individual result and not "column_coverage >= <number>"
Unrecognised(check) ==
    /\ check \notin IndividualKeys
    /\ ~( /\ HasGe(check)
          /\ Len(SplitOnGe(check)) = 2
          /\ Strip(SplitOnGe(check)[1]) = column_coverage
          /\ ParseFloat(Strip(SplitOnGe(check)[2])).exc = "none" )

\* C7: whenever the required checks hold a string the dispatcher does not
\* recognise (unknown name, other metric, malformed threshold expression),
\* evaluate_table_compliance returns normally with overall_compliant false
\* and "Failed: <check>" among the failure reasons.
C7_UnrecognisedCheckFailsClosed ==
    ComplianceCalled =>
        \A i \in DOMAIN config.required_checks :
            Unrecognised(config.required_checks[i]) =>
                /\ result.exc = "none"
                /\ ~result.val.overall_compliant
                /\ \E j \in DOMAIN result.val.failure_reasons :
                       result.val.failure_reasons[j]
                         = failed_prefix \o config.required_checks[i]

(***************************************************************************)
(* Specification of the critical-column methods                            *)
(***************************************************************************)
MaxNameLen == 4

MaxCriticalColumns == 3

NameAlphabet == {"i", "d", "x", "_", "I"}

ColumnNames ==
    UNION { [1..len -> NameAlphabet] : len \in 0..MaxNameLen } \cup
    { <<"u","s","e","r","_","i","d">>,
      <<"U","s","e","r","I","d">>,
      <<"h","u","m","i","d","i","t","y">>,
      <<"i","d","F","i","e","l","d">>,
      <<"u","s","e","r","_","e","m","a","i","l">> }

CriticalPatternLists ==
    { DefaultCriticalPatterns,
      << [pattern |-> <<"i","d">>, word_boundary |-> FALSE] >>,
      << [pattern |-> <<"I","D">>, word_boundary |-> TRUE] >> }

CriticalConfigs ==
    { [DocumentationConfig(<< <<"n","a">> >>, FALSE) EXCEPT !.critical_column_patterns = patterns] :
        patterns \in CriticalPatternLists }

ColumnComments == { None, PyStr(<<>>), PyStr(<<" ">>), PyStr(<<"k","e","y">>) }

CriticalColumns ==
    { ColumnInfo(name, comment) :
        name \in { <<"i","d">>, <<"q","t","y">>, <<"u","s","e","r","_","e","m","a","i","l">> },
        comment \in ColumnComments \ {PyStr(<<>>)} }

\* One-column tables over every name, and short column lists over a few
CriticalTables ==
    { TableInfo(None, <<ColumnInfo(name, comment)>>, NoProperties) :
        name \in ColumnNames, comment \in ColumnComments \ {PyStr(<<" ">>)} } \cup
    { TableInfo(None, columns, NoProperties) :
        columns \in UNION { [1..len -> CriticalColumns] : len \in 0..MaxCriticalColumns } }

InitCritical ==
    /\ table \in CriticalTables
    /\ config \in CriticalConfigs
    /\ call = NoCall
    /\ result = Returned(FALSE)
    /\ NothingRecorded

GetUndocumentedCriticalColumns ==
    Calls("get_undocumented_critical_columns",
          get_undocumented_critical_columns(config, table))

HasAllCriticalColumnsDocumented ==
    Calls("has_all_critical_columns_documented",
          has_all_critical_columns_documented(config, table))

NextCritical ==
    \/ Return
    \/ GetUndocumentedCriticalColumns
    \/ HasAllCriticalColumnsDocumented

SpecCritical == InitCritical /\ [][NextCritical]_vars

(***************************************************************************)
(* Claims on the critical-column methods                                   *)
(***************************************************************************)
\* Segment boundaries of a column name: the ends of the name, an
\* underscore, and the upper-case letter that starts a camelCase token
LeftBoundary(name, from) ==
    \/ from = 1
    \/ name[from - 1] = "_"
    \/ IsUpper(name[from])

RightBoundary(name, to) ==
    \/ to = Len(name)
    \/ name[to + 1] = "_"
    \/ IsUpper(name[to + 1])

\* Some occurrence of the pattern in the name, compared without case,
\* starts or ends at a segment boundary
AlignsWithBoundary(name, pattern) ==
    \E from \in 1..(Len(name) - Len(pattern) + 1) :
        /\ SubSeq(Lower(name), from, from + Len(pattern) - 1) = pattern
        /\ \/ LeftBoundary(name, from)
           \/ RightBoundary(name, from + Len(pattern) - 1)

BlankComment(col) ==
    \/ col.comment = None
    \/ Strip(col.comment.s) = <<>>

Reported(name) == \E j \in DOMAIN result.val : result.val[j] = name

HasWordBoundaryPattern(pattern) ==
    \E k \in DOMAIN config.critical_column_patterns :
        /\ config.critical_column_patterns[k].word_boundary
        /\ Lower(config.critical_column_patterns[k].pattern) = pattern

IsUndocumentedCritical(col) ==
    /\ _is_column_critical(Lower(col.name), config.critical_column_patterns)
    /\ BlankComment(col)

NameOf(columns) == [ j \in DOMAIN columns |-> columns[j].name ]

\* C12: get_undocumented_critical_columns returns the names of exactly the
\* critical columns whose comment is null or blank, in column order, and
\* the empty list for a table without columns;
\* has_all_critical_columns_documented is true iff that list is empty.
C12_UndocumentedCriticalInOrder ==
    /\ call.op = "get_undocumented_critical_columns" =>
          /\ result = Returned(NameOf(SelectSeq(table.columns, IsUndocumentedCritical)))
          /\ table.columns = <<>> => result = Returned(<<>>)
    /\ call.op = "has_all_critical_columns_documented" =>
          result = Returned(\A i \in DOMAIN table.columns :
                                ~IsUndocumentedCritical(table.columns[i]))

\* A blank comment on a critical column between two other columns
C12_Witness ==
    /\ call.op = "get_undocumented_critical_columns"
    /\ config.critical_column_patterns = DefaultCriticalPatterns
    /\ table.columns = << ColumnInfo(<<"u","s","e","r","_","e","m","a","i","l">>, PyStr(<<" ">>)),
                          ColumnInfo(<<"q","t","y">>, None),
                          ColumnInfo(<<"i","d">>, None) >>
    /\ result = Returned(<< <<"u","s","e","r","_","e","m","a","i","l">>,
                            <<"i","d">> >>)

(***************************************************************************)
(* Specification of the comment length check                               *)
(***************************************************************************)
MaxLongCommentLen == 11

\* Comments up to one character past the default minimum, of a letter and
\* of white space
LongComments ==
    {None} \cup
    { PyStr(chars) :
        chars \in UNION { [1..len -> {"a", " "}] : len \in 0..MaxLongCommentLen } }

\* validation_thresholds.minimum_comment_length: the default and two others
LengthConfigs ==
    { [DocumentationConfig(<< <<"n","a">> >>, FALSE) EXCEPT !.minimum_comment_length = minimum] :
        minimum \in {0, 3, 10} }

InitLength ==
    /\ table \in { TableInfo(c, <<>>, NoProperties) : c \in LongComments }
    /\ config \in LengthConfigs
    /\ call = NoCall
    /\ result = Returned(FALSE)
    /\ NothingRecorded

HasMinimumLength == Calls("has_minimum_length", has_minimum_length(config, table))

NextLength ==
    \/ Return
    \/ HasMinimumLength

SpecLength == InitLength /\ [][NextLength]_vars

(***************************************************************************)
(* Claims on the comment length check                                      *)
(***************************************************************************)
\* The comments that have the comment of the table as a proper prefix, by
\* one or two more characters
Extensions ==
    { [table EXCEPT !.comment = PyStr(table.comment.s \o suffix)] :
        suffix \in UNION { [1..len -> {"a", " "}] : len \in 1..2 } }

\* C14: has_minimum_length is false for a null comment and otherwise true
\* iff the number of characters of the comment as it stands, white space
\* included, is at least minimum_comment_length; so when it is true of a
\* comment it is true of every comment that comment is a prefix of.
C14_MinimumLength ==
    call.op = "has_minimum_length" =>
        /\ table.comment = None => result = Returned(FALSE)
        /\ table.comment # None =>
             /\ result = Returned(Len(table.comment.s) >= config.minimum_comment_length)
             /\ result = Returned(TRUE) =>
                    \A longer \in Extensions : has_minimum_length(config, longer)

\* Ten spaces pass at the default minimum of ten.
C14_Witness ==
    /\ call.op = "has_minimum_length"
    /\ config.minimum_comment_length = 10
    /\ table.comment = PyStr(<<" "," "," "," "," "," "," "," "," "," ">>)
    /\ result = Returned(TRUE)

(***************************************************************************)
(* Specification of the column coverage methods                            *)
(***************************************************************************)
MaxWideColumns == 100

\* A table of `total` columns of which the first `documented` carry a
\* comment and the others none or a blank one, as the boundary tests build
WideColumns(documented, total) ==
    [ i \in 1..total |->
        ColumnInfo(<<"c","o","l">>,
                   IF i <= documented THEN PyStr(<<"k","e","y">>)
                   ELSE IF i % 2 = 0 THEN None ELSE PyStr(<<" ">>)) ]

CoverageTables ==
    UNION { { TableInfo(None, WideColumns(documented, total), NoProperties) :
                documented \in 0..total } : total \in 0..MaxWideColumns } \cup
    { TableInfo(None, columns, NoProperties) : columns \in ColumnLists }

CoverageConfigs ==
    { [DocumentationConfig(<< <<"n","a">> >>, FALSE) EXCEPT !.required_column_coverage_percent = percent] :
        percent \in {58, 80} }

CoverageThresholds ==
    { Omitted, ArgNone } \cup { ArgInt(t) : t \in {0, 29, 58, 79, 80, 81, 100} }

InitCoverage ==
    /\ table \in CoverageTables
    /\ config \in CoverageConfigs
    /\ call = NoCall
    /\ result = Returned(FALSE)
    /\ NothingRecorded

CalculateColumnDocumentationPercentage ==
    Calls("calculate_column_documentation_percentage",
          calculate_column_documentation_percentage(table))

MeetsColumnDocumentationThreshold ==
    \E threshold \in CoverageThresholds :
        /\ call = NoCall
        /\ call' = InvokeSized("meets_column_documentation_threshold", threshold, Omitted)
        /\ result' = Returned(meets_column_documentation_threshold(config, table, threshold))
        /\ UNCHANGED <<table, config, reporting, client>>

NextCoverage ==
    \/ Return
    \/ CalculateColumnDocumentationPercentage
    \/ MeetsColumnDocumentationThreshold

SpecCoverage == InitCoverage /\ [][NextCoverage]_vars

(***************************************************************************)
(* Claims on the column coverage methods                                   *)
(***************************************************************************)
\* The number of columns whose comment is non-null and non-blank
DocumentedColumns == Cardinality({ i \in DOMAIN table.columns : ~BlankComment(table.columns[i]) })

TotalColumns == Len(table.columns)

\* The threshold a call of meets_column_documentation_threshold compares with
CoverageLimit ==
    IF call.threshold.none THEN config.required_column_coverage_percent
    ELSE call.threshold.v

\* C13: calculate_column_documentation_percentage returns 100 for a table
\* without columns and otherwise 100 * documented / total (stated where that
\* quotient is a whole number, which a float holds exactly), and
\* meets_column_documentation_threshold(table, t) is true iff
\* 100 * documented / total >= t, so a table exactly at the threshold passes
\* and a table without columns meets every threshold up to 100.
C13_CoverageThreshold ==
    /\ call.op = "calculate_column_documentation_percentage" =>
         /\ TotalColumns = 0 => result = Returned(FloatOfNat(100))
         /\ (TotalColumns # 0 /\ (100 * DocumentedColumns) % TotalColumns = 0) =>
                result = Returned(FloatOfNat((100 * DocumentedColumns) \div TotalColumns))
    /\ call.op = "meets_column_documentation_threshold" =>
         result = Returned(IF TotalColumns = 0 THEN 100 >= CoverageLimit
                           ELSE 100 * DocumentedColumns >= CoverageLimit * TotalColumns)

(***************************************************************************)
(* Claims on the clustering detection                                      *)
(***************************************************************************)
\* The table carries an explicit clustering value that is the empty list,
\* as a native list or as JSON text.
EmptyExplicitClustering(t) ==
    /\ t.properties.present
    /\ Get(t.properties, "clusteringColumns") \in {PyList(<<>>), PyStr(<<"[","]">>)}

NoDeltaFlags(t) ==
    /\ "delta.autoOptimize.optimizeWrite" \notin DOMAIN t.properties.map
    /\ "delta.autoOptimize.autoCompact" \notin DOMAIN t.properties.map

\* The outcome of `a or b or c` with has_clustering_columns for a, the
\* operand evaluated first
ExplicitOr(rest) ==
    IF has_clustering_columns(config, table).exc # "none"
    THEN has_clustering_columns(config, table)
    ELSE Returned(has_clustering_columns(config, table).val \/ rest)

ClusteringRaw == Get(table.properties, config.clustering_property_name)

\* The clustering value as a list: the native list, or the list a JSON
\* text decodes to
DecodesToList(value) ==
    /\ value.k = "str"
    /\ JsonLoads(value.s).ok
    /\ JsonLoads(value.s).v.k = "list"

ClusteringList ==
    IF ClusteringRaw.k = "list" THEN ClusteringRaw.l
    ELSE IF DecodesToList(ClusteringRaw) THEN JsonLoads(ClusteringRaw.s).v.l
    ELSE <<>>

IsNonEmptyGroup(group) == group.k = "list" /\ group.l # <<>>

\* The clustering list without its empty and malformed inner lists
NormalizedClusteringList ==
    IF table.properties.present THEN SelectSeq(ClusteringList, IsNonEmptyGroup) ELSE <<>>

\* C15: has_clustering_columns(table) is true iff the normalized clustering
\* list (empty or malformed inner lists skipped) is non-empty, hence exactly
\* when count_clustering_columns(table) > 0.
C15_HasClusteringIffCountPositive ==
    call.op = "has_clustering_columns" =>
        /\ result = Returned(NormalizedClusteringList # <<>>)
        /\ count_clustering_columns(config, table).exc = "none"
        /\ result = Returned(count_clustering_columns(config, table).val > 0)

NoClusteringProperty ==
    \/ ~table.properties.present
    \/ DOMAIN table.properties.map = {}
    \/ config.clustering_property_name \notin DOMAIN table.properties.map

\* C16: get_clustering_columns returns, in order, the first element of each
\* non-empty inner list of the clustering value and skips the empty ones;
\* count_clustering_columns is the length of that result; both are [] and 0
\* when properties is null, is empty, or lacks the clustering property.
C16_FirstOfEachGroupInOrder ==
    /\ call.op = "get_clustering_columns" =>
         /\ result.exc = "none"
         /\ result.val = [ i \in DOMAIN NormalizedClusteringList |->
                             NormalizedClusteringList[i].l[1] ]
         /\ NoClusteringProperty => result.val = <<>>
    /\ call.op = "count_clustering_columns" =>
         /\ result.exc = "none"
         /\ result.val = Len(NormalizedClusteringList)
         /\ result = count_clustering_columns(config, table)
         /\ get_clustering_columns(config, table).exc = "none"
         /\ result.val = Len(get_clustering_columns(config, table).val)
         /\ NoClusteringProperty => result.val = 0

ClusteringOps ==
    {"has_clustering_columns", "get_clustering_columns", "count_clustering_columns"}

ClusteringResult(op, t) ==
    CASE op = "has_clustering_columns" -> has_clustering_columns(config, t)
      [] op = "get_clustering_columns" -> get_clustering_columns(config, t)
      [] op = "count_clustering_columns" -> count_clustering_columns(config, t)

\* What each predicate answers for "no clustering data"
NoClusteringResult(op) ==
    CASE op = "has_clustering_columns" -> FALSE
      [] op = "get_clustering_columns" -> <<>>
      [] op = "count_clustering_columns" -> 0

\* The table with the JSON text of its clustering property replaced by the
\* native list the text decodes to
WithNativeClusteringList ==
    [table EXCEPT !.properties.map[config.clustering_property_name] =
                      PyList(JsonLoads(ClusteringRaw.s).v.l)]

\* C17: the three clustering predicates return for every shape of the
\* clustering value and never raise; a string that is not valid JSON, JSON
\* that is not a list, and a value that is neither a string nor a list all
\* give "no clustering data" (false, [], 0); and a JSON text gives the same
\* three results as the native nested list it decodes to.
C17_TotalAndRepresentationIndependent ==
    call.op \in ClusteringOps =>
        /\ result.exc = "none"
        /\ ( \/ ClusteringRaw.k \notin {"str", "list"}
             \/ ClusteringRaw.k = "str" /\ ~DecodesToList(ClusteringRaw) )
           => result = Returned(NoClusteringResult(call.op))
        /\ DecodesToList(ClusteringRaw)
           => result = ClusteringResult(call.op, WithNativeClusteringList)

\* str(value).lower() == str(configured).lower()
MatchesIgnoringCase(value, expected) == Lower(StrOf(value)) = Lower(StrOf(expected))

\* C18: get_auto_clustering_status is "unknown" iff properties is null,
\* "enabled" iff properties is present and the value of the auto-clustering
\* property matches the configured value ignoring case, and "disabled" in
\* every other case, an empty properties map included.
C18_AutoClusteringStatus ==
    call.op = "get_auto_clustering_status" =>
        /\ result.exc = "none"
        /\ result.val \in {"unknown", "enabled", "disabled"}
        /\ result.val = "unknown" <=> ~table.properties.present
        /\ result.val = "enabled" <=>
             /\ table.properties.present
             /\ MatchesIgnoringCase(Get(table.properties, config.cluster_by_auto_property),
                                    config.cluster_by_auto_value)
        /\ (table.properties.present /\ DOMAIN table.properties.map = {})
             => result.val = "disabled"

\* An empty properties map is classified "disabled".
C18_Witness ==
    /\ call.op = "get_auto_clustering_status"
    /\ table.properties.present
    /\ DOMAIN table.properties.map = {}
    /\ result = Returned("disabled")

\* The spellings of "true" in every mix of upper and lower case
CasingsOfTrue ==
    { <<t, r, u, e>> : t \in {"t", "T"}, r \in {"r", "R"}, u \in {"u", "U"}, e \in {"e", "E"} }

\* str(value) is "true" in some casing, for the value under the configured
\* exclusion property name (None when the name is absent)
ExclusionIsTrue ==
    StrOf(Get(table.properties, config.exclusion_property_name)) \in CasingsOfTrue

\* C19: get_cluster_exclusion_status returns "disabled" whenever
\* honor_exclusion_flag is off, whatever the table and even when properties
\* is null; otherwise "unknown" iff properties is null; otherwise "excluded"
\* iff the value of the exclusion property stringifies, ignoring case, to
\* "true"; otherwise "not_excluded", an empty properties map included.
C19_ExclusionStatus ==
    call.op = "get_cluster_exclusion_status" =>
        /\ result = Returned(
             IF ~config.honor_exclusion_flag THEN "disabled"
             ELSE IF ~table.properties.present THEN "unknown"
             ELSE IF ExclusionIsTrue THEN "excluded"
             ELSE "not_excluded")
        /\ ( /\ config.honor_exclusion_flag
             /\ table.properties.present
             /\ DOMAIN table.properties.map = {} ) => result.val = "not_excluded"

\* The flag is off and properties is null: "disabled", not "unknown".
C19_Witness ==
    /\ call.op = "get_cluster_exclusion_status"
    /\ ~config.honor_exclusion_flag
    /\ ~table.properties.present
    /\ result = Returned("disabled")

\* Values that never count as an exclusion: "yes", 1, "" and an absent property
NeverExcluding == { PyStr(<<"y","e","s">>), PyInt(1), PyStr(<<>>), None }

\* C20: has_cluster_exclusion is false whenever honor_exclusion_flag is off,
\* even if the table carries cluster_exclusion = "true"; with the flag
\* honoured it is true iff properties is non-null and the value under the
\* configured exclusion property name stringifies, ignoring case, to exactly
\* "true"; "yes", 1, "" and an absent property give false, and a value
\* stored under another property name is ignored.
C20_HasClusterExclusion ==
    call.op = "has_cluster_exclusion" =>
        /\ result.exc = "none"
        /\ ~config.honor_exclusion_flag => result.val = FALSE
        /\ config.honor_exclusion_flag =>
              (result.val = TRUE <=> (table.properties.present /\ ExclusionIsTrue))
        /\ Get(table.properties, config.exclusion_property_name) \in NeverExcluding
              => result.val = FALSE
        /\ config.exclusion_property_name \notin DOMAIN table.properties.map
              => result.val = FALSE

\* The flag is off and the table carries "true" under the configured name.
C20_Witness ==
    /\ call.op = "has_cluster_exclusion"
    /\ ~config.honor_exclusion_flag
    /\ table.properties.present
    /\ Get(table.properties, config.exclusion_property_name) = PyStr(true_str)
    /\ result = Returned(FALSE)

\* The four flag predicates
FlagOps == { "has_auto_clustering", "has_optimize_write", "has_auto_compact",
             "has_cluster_exclusion" }

\* The property that a flag predicate reads
FlagProperty(op) ==
    CASE op = "has_auto_clustering"   -> config.cluster_by_auto_property
      [] op = "has_optimize_write"    -> config.optimize_write_property
      [] op = "has_auto_compact"      -> config.auto_compact_property
      [] op = "has_cluster_exclusion" -> config.exclusion_property_name

\* The value that a flag predicate expects, "true" for the exclusion flag
FlagExpected(op) ==
    CASE op = "has_auto_clustering"   -> config.cluster_by_auto_value
      [] op = "has_optimize_write"    -> config.optimize_write_value
      [] op = "has_auto_compact"      -> config.auto_compact_value
      [] op = "has_cluster_exclusion" -> PyStr(true_str)

FlagResult(op, t) ==
    CASE op = "has_auto_clustering"   -> has_auto_clustering(config, t)
      [] op = "has_optimize_write"    -> has_optimize_write(config, t)
      [] op = "has_auto_compact"      -> has_auto_compact(config, t)
      [] op = "has_cluster_exclusion" -> has_cluster_exclusion(config, t)

\* The table with the flag property of op set to value
WithFlagValue(op, value) ==
    [table EXCEPT !.properties.map = (FlagProperty(op) :> value) @@ @]

\* Values that enable no flag: "false", "yes", "1", "", 123, an absent property
NeverEnabling ==
    { PyStr(<<"f","a","l","s","e">>), PyStr(<<"y","e","s">>), PyStr(<<"1">>),
      PyStr(<<>>), PyInt(123), None }

\* C21: each of has_auto_clustering, has_optimize_write, has_auto_compact
\* and has_cluster_exclusion (with the exclusion flag honoured) gives the
\* same result for every casing of the property value: true when properties
\* is present and the value equals the expected value ignoring case, and
\* false for "false", "yes", "1", "", 123, an absent property and null
\* properties.
C21_FlagsIgnoreCase ==
    (call.op \in FlagOps /\ config.honor_exclusion_flag) =>
        LET value == Get(table.properties, FlagProperty(call.op))
        IN  /\ result = Returned( /\ table.properties.present
                                  /\ MatchesIgnoringCase(value, FlagExpected(call.op)) )
            /\ (table.properties.present /\ value.k = "str" /\ value.s \in CasingsOfTrue)
                 => \A casing \in CasingsOfTrue :
                        FlagResult(call.op, WithFlagValue(call.op, PyStr(casing))) = result.val
            /\ value \in NeverEnabling => result.val = FALSE
            /\ ~table.properties.present => result.val = FALSE

\* optimizeWrite = "TRUE" counts as enabled.
C21_Witness ==
    /\ call.op = "has_optimize_write"
    /\ table.properties.present
    /\ Get(table.properties, config.optimize_write_property) = PyStr(<<"T","R","U","E">>)
    /\ result = Returned(TRUE)

\* has_optimize_write and has_auto_compact combined as the configuration asks
BothOrEither(optimize_write, auto_compact) ==
    IF config.require_both_delta_flags
    THEN optimize_write /\ auto_compact
    ELSE optimize_write \/ auto_compact

\* C22: has_delta_auto_optimization is has_optimize_write AND
\* has_auto_compact when require_both_delta_flags is true and their OR when
\* it is false; get_delta_auto_optimization_status reports these three
\* values for the same table, the two configured property names and
\* require_both_flags, and nothing else.
C22_DeltaAutoOptimization ==
    /\ call.op = "has_delta_auto_optimization" =>
          result = Returned(BothOrEither(has_optimize_write(config, table),
                                         has_auto_compact(config, table)))
    /\ call.op = "get_delta_auto_optimization_status" =>
          /\ result.exc = "none"
          /\ DOMAIN result.val =
                { "has_optimize_write", "has_auto_compact", "has_delta_auto_optimization",
                  "optimize_write_property", "auto_compact_property", "require_both_flags" }
          /\ result.val.has_optimize_write = has_optimize_write(config, table)
          /\ result.val.has_auto_compact = has_auto_compact(config, table)
          /\ result.val.has_delta_auto_optimization =
                BothOrEither(result.val.has_optimize_write, result.val.has_auto_compact)
          /\ result.val.optimize_write_property = config.optimize_write_property
          /\ result.val.auto_compact_property = config.auto_compact_property
          /\ result.val.require_both_flags = config.require_both_delta_flags

\* Only optimizeWrite is enabled and one flag is enough.
C22_Witness ==
    /\ call.op = "get_delta_auto_optimization_status"
    /\ ~config.require_both_delta_flags
    /\ result.val.has_optimize_write
    /\ ~result.val.has_auto_compact
    /\ result.val.has_delta_auto_optimization

\* Property values that are falsy: "", 0 and False
FalsyValues == { PyStr(<<>>), PyInt(0), PyBool(FALSE) }

RECURSIVE EvaluateEach(_, _, _)
EvaluateEach(cfg, tables, results) ==
    IF tables = <<>> THEN Returned(results)
    ELSE IF evaluate_table_compliance(cfg, Head(tables)).exc # "none"
    THEN evaluate_table_compliance(cfg, Head(tables))
    ELSE EvaluateEach(cfg, Tail(tables),
                      Append(results, evaluate_table_compliance(cfg, Head(tables)).val))

\* sum(1 for r in results if r.overall_compliant)
CompliantCount(results) ==
    Cardinality({ i \in DOMAIN results : results[i].overall_compliant })

\* sum(1 for r in results if r.individual_results.get(check, False))
PassedCount(results, check) ==
    Cardinality({ i \in DOMAIN results :
                    IF check \in DOMAIN results[i].individual_results
                    THEN results[i].individual_results[check]
                    ELSE FALSE })

\* (count / total * 100) if total > 0 else 0
RateOf(count, total) ==
    IF total > 0 THEN FloatTimesNat(FloatDivide(count, total), 100) ELSE FloatZero

\* The keys of individual_results over all the results
AllChecks(results) == UNION { DOMAIN results[i].individual_results : i \in DOMAIN results }

CheckStats(results) ==
    [ check \in AllChecks(results) |->
        [ passed    |-> PassedCount(results, check),
          failed    |-> Len(results) - PassedCount(results, check),
          pass_rate |-> RateOf(PassedCount(results, check), Len(results)) ] ]

CountReasons_once_per_reason(reasons, failure_counts) ==
    [ reason \in DOMAIN failure_counts \cup { reasons[i] : i \in DOMAIN reasons } |-> 1 ]

\* failure_counts[reason] = failure_counts.get(reason, 0) + 1, reason by reason
RECURSIVE CountReasons(_, _)
CountReasons(reasons, failure_counts) ==
    IF reasons = <<>> THEN failure_counts
    ELSE CountReasons(Tail(reasons),
                      IF Head(reasons) \in DOMAIN failure_counts
                      THEN [failure_counts EXCEPT ![Head(reasons)] = @ + 1]
                      ELSE (Head(reasons) :> 1) @@ failure_counts)

\* The loop over the results that counts the reasons of the non-compliant ones
RECURSIVE FailureCounts(_, _)
FailureCounts(results, failure_counts) ==
    IF results = <<>> THEN failure_counts
    ELSE FailureCounts(Tail(results),
                       IF ~Head(results).overall_compliant
                       THEN CountReasons(Head(results).failure_reasons, failure_counts)
                       ELSE failure_counts)

Summary(cfg, results) ==
    [ total_tables                  |-> Len(results),
      comprehensive_compliant       |-> CompliantCount(results),
      comprehensive_compliance_rate |-> RateOf(CompliantCount(results), Len(results)),
      individual_check_stats        |-> CheckStats(results),
      common_failures               |-> FailureCounts(results, <<>>),
      required_checks               |-> cfg.required_checks ]

\* The pair (results, summary), or the exception of an evaluation
evaluate_tables(cfg, tables) ==
    IF EvaluateEach(cfg, tables, <<>>).exc # "none" THEN EvaluateEach(cfg, tables, <<>>)
    ELSE Returned([ results |-> EvaluateEach(cfg, tables, <<>>).val,
                    summary |-> Summary(cfg, EvaluateEach(cfg, tables, <<>>).val) ])

(***************************************************************************)
(* Specification of the batch evaluation                                   *)
(***************************************************************************)
MaxTables == 3

\* A compliant table, one without comment and columns, one with a
\* placeholder comment and an undocumented key, one with a short comment
BatchTables ==
    { TableInfo(PyStr(<<"C","u","s","t","o","m","e","r","s",".">>),
                <<ColumnInfo(<<"i","d">>, PyStr(<<"k","e","y">>))>>, NoProperties),
      TableInfo(None, <<>>, NoProperties),
      TableInfo(PyStr(<<"N","A",":"," ","t","o"," ","b","e"," ","d","e","s","c","r","i","b","e","d">>),
                <<ColumnInfo(<<"i","d">>, None)>>, NoProperties),
      TableInfo(PyStr(<<"O","r","d","e","r","s">>),
                <<ColumnInfo(<<"q","t","y">>, None)>>, NoProperties) }

TableLists == UNION { [1..len -> BatchTables] : len \in 0..MaxTables }

\* The default required checks, a list that names one check twice, and a
\* list with a threshold expression that cannot be parsed
BatchCheckLists ==
    { DefaultRequiredChecks,
      << table_has_comment_key, table_has_comment_key, critical_columns_documented_key >>,
      << table_has_comment_key,
         <<"c","o","l","u","m","n","_","c","o","v","e","r","a","g","e"," ",">","="," ","a","b","c">> >> }

BatchConfigs ==
    { [DocumentationConfig(<< <<"n","a">> >>, FALSE) EXCEPT !.required_checks = checks] :
        checks \in BatchCheckLists }

InvokeBatch(op, tables) ==
    [op |-> op, threshold |-> Omitted, size |-> Omitted, tables |-> tables]

InitBatch ==
    /\ table \in BatchTables
    /\ config \in BatchConfigs
    /\ call = NoCall
    /\ result = Returned(FALSE)
    /\ NothingRecorded

EvaluateTables ==
    \E tables \in TableLists :
        /\ call = NoCall
        /\ call' = InvokeBatch("evaluate_tables", tables)
        /\ result' = evaluate_tables(config, tables)
        /\ UNCHANGED <<table, config, reporting, client>>

NextBatch ==
    \/ Return
    \/ EvaluateTableCompliance
    \/ EvaluateTables

SpecBatch == InitBatch /\ [][NextBatch]_vars

(***************************************************************************)
(* Claims on the batch evaluation                                          *)
(***************************************************************************)
BatchReturned == call.op = "evaluate_tables" /\ result.exc = "none"

\* The non-compliant results that list reason, each as often as it lists it
Occurrences(results, reason) ==
    { <<i, j>> \in (DOMAIN results) \X (DOMAIN config.required_checks) :
        /\ ~results[i].overall_compliant
        /\ j \in DOMAIN results[i].failure_reasons
        /\ results[i].failure_reasons[j] = reason }

\* C23: evaluate_tables returns one result per table in input order and a
\* summary with total_tables the number of tables, comprehensive_compliant
\* the number of results with overall_compliant true, the compliance rate
\* compliant / total * 100 (0 for an empty list, with no division error),
\* passed + failed = total_tables in every per-check entry, and
\* common_failures[reason] the number of times the reason occurs in the
\* failure_reasons of the non-compliant results.
C23_BatchSummary ==
    /\ (call.op = "evaluate_tables" /\ call.tables = <<>>) =>
          /\ result.exc = "none"
          /\ result.val.results = <<>>
          /\ result.val.summary.comprehensive_compliance_rate = FloatZero
    /\ BatchReturned =>
          LET results == result.val.results
              summary == result.val.summary
              compliant == { i \in DOMAIN results : results[i].overall_compliant }
          IN  /\ Len(results) = Len(call.tables)
              /\ \A i \in DOMAIN results :
                     Returned(results[i]) = evaluate_table_compliance(config, call.tables[i])
              /\ summary.total_tables = Len(call.tables)
              /\ summary.comprehensive_compliant = Cardinality(compliant)
              /\ summary.comprehensive_compliance_rate
                   = IF call.tables = <<>> THEN FloatZero
                     ELSE FloatTimesNat(FloatDivide(Cardinality(compliant), Len(call.tables)), 100)
              /\ Cardinality(compliant) = Len(call.tables) /\ call.tables # <<>>
                   => summary.comprehensive_compliance_rate = FloatOfNat(100)
              /\ \A check \in DOMAIN summary.individual_check_stats :
                     summary.individual_check_stats[check].passed
                       + summary.individual_check_stats[check].failed = summary.total_tables
              /\ DOMAIN summary.common_failures
                   = UNION { { results[i].failure_reasons[j] :
                                 j \in DOMAIN results[i].failure_reasons } :
                             i \in DOMAIN results \ compliant }
              /\ \A reason \in DOMAIN summary.common_failures :
                     summary.common_failures[reason]
                       = Cardinality(Occurrences(results, reason))

\* Three tables, one compliant, and a check named twice that two of them fail.
C23_Witness ==
    /\ BatchReturned
    /\ Len(call.tables) = 3
    /\ result.val.summary.comprehensive_compliant = 1
    /\ \E reason \in DOMAIN result.val.summary.common_failures :
          result.val.summary.common_failures[reason] = 4

(***************************************************************************)
(* Results tracking (results/results.py)                                   *)
(***************************************************************************)
TestResult(test_name, layer, status, duration, timestamp, details) ==
    [ test_name |-> test_name, layer |-> layer, status |-> status,
      duration |-> duration, timestamp |-> timestamp, details |-> details ]

ComplianceResult(domain, total_objects, compliant_objects, non_compliant_objects, compliance_rate, violations, timestamp) ==
    [ domain |-> domain, total_objects |-> total_objects,
      compliant_objects |-> compliant_objects,
      non_compliant_objects |-> non_compliant_objects,
      compliance_rate |-> compliance_rate, violations |-> violations,
      timestamp |-> timestamp ]

\* datetime.now(timezone.utc).strftime("%Y%m%d_%H%M%S"): the clock, in seconds
_generate_session_id == now

\* ResultsManager.__init__
ResultsManager ==
    [ session_id         |-> _generate_session_id,
      test_results       |-> <<>>,
      compliance_results |-> <<>> ]

add_test_result_deduplicating(self, test_result) ==
    IF \E i \in DOMAIN self.test_results : self.test_results[i] = test_result
    THEN self
    ELSE [self EXCEPT !.test_results = Append(@, test_result)]

add_test_result(self, test_result) ==
    [self EXCEPT !.test_results = Append(@, test_result)]

add_compliance_result(self, compliance_result) ==
    [self EXCEPT !.compliance_results = Append(@, compliance_result)]

\* len([r for r in self.test_results if r.status == status])
CountStatus(self, status) ==
    Cardinality({ i \in DOMAIN self.test_results : self.test_results[i].status = status })

\* len([r for r in self.test_results if r.layer == layer])
CountLayer(self, layer) ==
    Cardinality({ i \in DOMAIN self.test_results : self.test_results[i].layer = layer })

\* (part / whole * 100) if whole > 0 else 0
PercentOf(part, whole) ==
    IF whole > 0 THEN FloatTimesNat(FloatDivide(part, whole), 100) ELSE FloatZero

get_session_summary_failed_as_not_passed(self) ==
    [ session_id         |-> self.session_id,
      timestamp          |-> now,
      total_tests        |-> Len(self.test_results),
      passed_tests       |-> CountStatus(self, "passed"),
      failed_tests       |-> Len(self.test_results) - CountStatus(self, "passed"),
      success_rate       |-> PercentOf(CountStatus(self, "passed"), Len(self.test_results)),
      compliance_results |-> Len(self.compliance_results),
      test_results_by_layer |->
          [ unit        |-> CountLayer(self, "unit"),
            integration |-> CountLayer(self, "integration"),
            production  |-> CountLayer(self, "production") ] ]

get_session_summary(self) ==
    [ session_id         |-> self.session_id,
      timestamp          |-> now,
      total_tests        |-> Len(self.test_results),
      passed_tests       |-> CountStatus(self, "passed"),
      failed_tests       |-> CountStatus(self, "failed"),
      success_rate       |-> PercentOf(CountStatus(self, "passed"), Len(self.test_results)),
      compliance_results |-> Len(self.compliance_results),
      test_results_by_layer |->
          [ unit        |-> CountLayer(self, "unit"),
            integration |-> CountLayer(self, "integration"),
            production  |-> CountLayer(self, "production") ] ]

(***************************************************************************)
(* Specification of one ResultsManager, constructed by the caller          *)
(***************************************************************************)
MaxTestResults == 3

MaxComplianceResults == 1

\* The layers track_test_results derives from the file path, and the
\* statuses of a TestResult
Layers == {"unit", "integration", "production", "unknown"}

Statuses == {"passed", "failed", "skipped"}

TestResults ==
    { TestResult("test", layer, status, 1, 0, None) :
        layer \in Layers, status \in Statuses }

ComplianceResults ==
    { ComplianceResult("documentation", 2, compliant, 2 - compliant,
                       PercentOf(compliant, 2), <<>>, 0) : compliant \in 0..2 }

\* The table and configuration of the validators play no part here
NoValidator ==
    /\ table = TableInfo(None, <<>>, NoProperties)
    /\ config = <<>>

InitManager ==
    /\ NoValidator
    /\ call = NoCall
    /\ result = Returned(FALSE)
    /\ _results_manager = NoInstance
    /\ now = 0
    /\ managers = <<ResultsManager>>
    /\ threads = <<>>
    /\ client = <<>>

AddTestResult ==
    \E test_result \in TestResults :
        /\ call = NoCall
        /\ Len(managers[1].test_results) < MaxTestResults
        /\ call' = [op |-> "add_test_result", test_result |-> test_result]
        /\ managers' = [managers EXCEPT ![1] = add_test_result(@, test_result)]
        /\ result' = Returned(None)
        /\ UNCHANGED <<table, config, _results_manager, threads, now, client>>

AddComplianceResult ==
    \E compliance_result \in ComplianceResults :
        /\ call = NoCall
        /\ Len(managers[1].compliance_results) < MaxComplianceResults
        /\ call' = [op |-> "add_compliance_result", compliance_result |-> compliance_result]
        /\ managers' = [managers EXCEPT ![1] = add_compliance_result(@, compliance_result)]
        /\ result' = Returned(None)
        /\ UNCHANGED <<table, config, _results_manager, threads, now, client>>

GetSessionSummary ==
    /\ call = NoCall
    /\ call' = [op |-> "get_session_summary"]
    /\ result' = Returned(get_session_summary(managers[1]))
    /\ UNCHANGED <<table, config, reporting, client>>

NextManager ==
    \/ Return
    \/ AddTestResult
    \/ AddComplianceResult
    \/ GetSessionSummary

SpecManager == InitManager /\ [][NextManager]_vars

(***************************************************************************)
(* Claims on the ResultsManager                                            *)
(***************************************************************************)
\* The step is a call of op
Calling(op) == call.op = "none" /\ call'.op = op

WithStatus(status) ==
    { i \in DOMAIN managers[1].test_results : managers[1].test_results[i].status = status }

WithLayer(layer) ==
    { i \in DOMAIN managers[1].test_results : managers[1].test_results[i].layer = layer }

\* C25: get_session_summary reports total_tests the number of test results
\* added, passed_tests and failed_tests the numbers of results with status
\* "passed" and "failed" (so passed + failed <= total), success_rate
\* passed / total * 100 and 0 when no test was added, compliance_results the
\* number of compliance results added, and for unit, integration and
\* production the number of results of that layer; the call does not change
\* the accumulated lists.
C25_SessionSummary ==
    [][ Calling("get_session_summary") =>
          LET summary == result'.val
              total == Len(managers[1].test_results)
          IN  /\ managers' = managers
              /\ summary.total_tests = total
              /\ summary.passed_tests = Cardinality(WithStatus("passed"))
              /\ summary.failed_tests = Cardinality(WithStatus("failed"))
              /\ summary.passed_tests + summary.failed_tests <= summary.total_tests
              /\ summary.success_rate
                   = IF total = 0 THEN FloatZero
                     ELSE FloatTimesNat(FloatDivide(summary.passed_tests, total), 100)
              /\ summary.passed_tests = total /\ total > 0
                   => summary.success_rate = FloatOfNat(100)
              /\ summary.compliance_results = Len(managers[1].compliance_results)
              /\ \A layer \in {"unit", "integration", "production"} :
                     summary.test_results_by_layer[layer] = Cardinality(WithLayer(layer))
              /\ DOMAIN summary.test_results_by_layer = {"unit", "integration", "production"}
      ]_vars

\* Three tests, one passed, one failed and one skipped: a third succeeded.
C25_Witness ==
    /\ call.op = "get_session_summary"
    /\ result.val.total_tests = 3
    /\ result.val.passed_tests = 1
    /\ result.val.failed_tests = 1
    /\ result.val.success_rate = FloatTimesNat(FloatDivide(1, 3), 100)
    /\ result.val.compliance_results = 1

(***************************************************************************)
(* The module-level functions of results.results.  Each gives the global   *)
(* and the managers as the call leaves them; get_results_manager returns   *)
(* the global it leaves.                                                   *)
(***************************************************************************)
get_results_manager_always_new ==
    [ _results_manager |-> Len(managers) + 1,
      managers         |-> Append(managers, ResultsManager) ]

get_results_manager ==
    IF _results_manager = NoInstance
    THEN [ _results_manager |-> Len(managers) + 1,
           managers         |-> Append(managers, ResultsManager) ]
    ELSE [ _results_manager |-> _results_manager, managers |-> managers ]

record_test_result(test_name, layer, status, duration, details) ==
    [ get_results_manager EXCEPT
        !.managers[get_results_manager._results_manager] =
            add_test_result(@, TestResult(test_name, layer, status, duration, now, details)) ]

record_compliance_result_rate_of_non_compliant(domain, total_objects, compliant_objects, violations) ==
    [ get_results_manager EXCEPT
        !.managers[get_results_manager._results_manager] =
            add_compliance_result(@,
                ComplianceResult(domain, total_objects, compliant_objects,
                                 total_objects - compliant_objects,
                                 PercentOf(total_objects - compliant_objects, total_objects),
                                 violations, now)) ]

record_compliance_result(domain, total_objects, compliant_objects, violations) ==
    [ get_results_manager EXCEPT
        !.managers[get_results_manager._results_manager] =
            add_compliance_result(@,
                ComplianceResult(domain, total_objects, compliant_objects,
                                 total_objects - compliant_objects,
                                 PercentOf(compliant_objects, total_objects),
                                 violations, now)) ]

(***************************************************************************)
(* Specification of a single-threaded test session                         *)
(***************************************************************************)
MaxObjects == 3

\* Seconds the clock can advance during the session
MaxTime == 1

\* (layer, status) pairs that track_test_results records
SessionTests == { <<"unit", "passed">>, <<"integration", "failed">> }

\* Violation lists passed to record_compliance_result
ViolationLists == { <<>>, << <<"c","a","t",".","s",".","t">>, <<"c","a","t",".","s",".","t">> >> }

InitSession ==
    /\ NoValidator
    /\ call = NoCall
    /\ result = Returned(FALSE)
    /\ NothingRecorded

\* The test results and compliance results recorded so far
RecordedTests ==
    IF _results_manager = NoInstance THEN 0 ELSE Len(managers[_results_manager].test_results)

RecordedCompliance ==
    IF _results_manager = NoInstance THEN 0
    ELSE Len(managers[_results_manager].compliance_results)

GetResultsManager ==
    /\ call = NoCall
    /\ call' = [op |-> "get_results_manager"]
    /\ _results_manager' = get_results_manager._results_manager
    /\ managers' = get_results_manager.managers
    /\ result' = Returned(get_results_manager._results_manager)
    /\ UNCHANGED <<table, config, threads, now, client>>

RecordTestResult ==
    \E test \in SessionTests :
        /\ call = NoCall
        /\ RecordedTests < MaxTestResults
        /\ call' = [op |-> "record_test_result", test_name |-> "test",
                    layer |-> test[1], status |-> test[2], duration |-> 1]
        /\ _results_manager' = record_test_result("test", test[1], test[2], 1, None)._results_manager
        /\ managers' = record_test_result("test", test[1], test[2], 1, None).managers
        /\ result' = Returned(None)
        /\ UNCHANGED <<table, config, threads, now, client>>

RecordComplianceResult ==
    \E total_objects \in {0, MaxObjects}, compliant_objects \in 0..MaxObjects,
       violations \in ViolationLists :
        /\ call = NoCall
        /\ compliant_objects <= total_objects
        /\ RecordedCompliance < MaxComplianceResults
        /\ call' = [op |-> "record_compliance_result", domain |-> "documentation",
                    total_objects |-> total_objects,
                    compliant_objects |-> compliant_objects, violations |-> violations]
        /\ _results_manager' =
              record_compliance_result("documentation", total_objects, compliant_objects,
                                       violations)._results_manager
        /\ managers' =
              record_compliance_result("documentation", total_objects, compliant_objects,
                                       violations).managers
        /\ result' = Returned(None)
        /\ UNCHANGED <<table, config, threads, now, client>>

\* A second passes
Tick ==
    /\ now < MaxTime
    /\ now' = now + 1
    /\ UNCHANGED <<table, config, call, result, _results_manager, managers, threads, client>>

NextSession ==
    \/ Return
    \/ GetResultsManager
    \/ RecordTestResult
    \/ RecordComplianceResult
    \/ Tick

SpecSession == InitSession /\ [][NextSession]_vars

(***************************************************************************)
(* Claims on the test session                                              *)
(***************************************************************************)
\* Every ComplianceResult held by a manager
HeldComplianceResults ==
    UNION { { managers[m].compliance_results[i] : i \in DOMAIN managers[m].compliance_results } :
            m \in DOMAIN managers }

\* C26: every ComplianceResult created by record_compliance_result has
\* non_compliant_objects = total_objects - compliant_objects and
\* compliance_rate = compliant_objects / total_objects * 100, with rate 0
\* and no division error when total_objects = 0; the violations list is
\* stored as given.
C26_ComplianceResultFields ==
    /\ \A held \in HeldComplianceResults :
          /\ held.non_compliant_objects = held.total_objects - held.compliant_objects
          /\ held.compliance_rate
               = IF held.total_objects = 0 THEN FloatZero
                 ELSE FloatTimesNat(FloatDivide(held.compliant_objects, held.total_objects), 100)
          /\ (held.total_objects > 0 /\ held.compliant_objects = held.total_objects)
               => held.compliance_rate = FloatOfNat(100)
          /\ held.compliant_objects = 0 => held.compliance_rate = FloatZero
    /\ call.op = "record_compliance_result" =>
          LET held == managers[_results_manager].compliance_results
          IN  /\ result = Returned(None)
              /\ held # <<>>
              /\ held[Len(held)].violations = call.violations
              /\ held[Len(held)].total_objects = call.total_objects
              /\ held[Len(held)].compliant_objects = call.compliant_objects

\* Nothing to assess: the rate is 0 and the violations are kept.
C26_Witness ==
    /\ call.op = "record_compliance_result"
    /\ call.total_objects = 0
    /\ call.violations # <<>>
    /\ \E held \in HeldComplianceResults :
          /\ held.total_objects = 0
          /\ held.compliance_rate = FloatZero
          /\ held.violations = call.violations

\* The calls into the module
SessionOps == { "get_results_manager", "record_test_result", "record_compliance_result" }

\* list is prefix of longer
IsPrefix(list, longer) ==
    /\ Len(list) <= Len(longer)
    /\ \A i \in DOMAIN list : longer[i] = list[i]

\* C27: in a single-threaded process, after any sequence of calls of
\* get_results_manager, record_test_result and record_compliance_result
\* exactly one ResultsManager has been created, on the first call, and every
\* call used it: every recorded result is in its lists and its session_id
\* never changes.
C27_SingleInstance ==
    [][ /\ (call.op = "none" /\ call'.op \in SessionOps) =>
              /\ Len(managers') = 1
              /\ _results_manager' = 1
              /\ managers = <<>> => managers'[1].session_id = now
        /\ Calling("get_results_manager") =>
              /\ result' = Returned(1)
              /\ managers # <<>> => managers' = managers
        /\ Calling("record_test_result") =>
              /\ Len(managers'[1].test_results) = RecordedTests + 1
              /\ managers'[1].test_results[RecordedTests + 1]
                   = TestResult(call'.test_name, call'.layer, call'.status,
                                call'.duration, now, None)
        /\ Calling("record_compliance_result") =>
              /\ Len(managers'[1].compliance_results) = RecordedCompliance + 1
              /\ managers'[1].compliance_results[RecordedCompliance + 1].violations
                   = call'.violations
        /\ managers # <<>> =>
              /\ Len(managers') = Len(managers)
              /\ _results_manager' = _results_manager
              /\ managers'[1].session_id = managers[1].session_id
              /\ IsPrefix(managers[1].test_results, managers'[1].test_results)
              /\ IsPrefix(managers[1].compliance_results, managers'[1].compliance_results)
      ]_vars

\* A later call, a second after the instance was created, gets the
\* instance that holds what was recorded.
C27_Witness ==
    /\ call.op = "get_results_manager"
    /\ result = Returned(1)
    /\ Len(managers) = 1
    /\ managers[1].session_id < now
    /\ Len(managers[1].test_results) = 2
    /\ Len(managers[1].compliance_results) = 1

(***************************************************************************)
(* Specification of threads calling into results.results.  A thread can be *)
(* suspended between any two of: the test of the global, the construction  *)
(* of a ResultsManager, the assignment of the global, the read of the      *)
(* global for the return, and the append to the list of the manager.       *)
(***************************************************************************)
MaxThreads == 2

MaxCalls == 2

Threads == 1..MaxThreads

\* A thread outside any call: the calls it has completed, the results it
\* has recorded, and the locals of its last call
Idle(calls, recorded, instance, manager) ==
    [ pc |-> "idle", op |-> "none", calls |-> calls, recorded |-> recorded,
      instance |-> instance, manager |-> manager ]

InitThreads ==
    /\ NoValidator
    /\ call = NoCall
    /\ result = Returned(FALSE)
    /\ _results_manager = NoInstance
    /\ managers = <<>>
    /\ now = 0
    /\ client = <<>>
    /\ threads = [ t \in Threads |-> Idle(0, 0, NoInstance, NoInstance) ]

\* What the steps of a thread leave alone, apart from the module state
ThreadFrame == UNCHANGED <<table, config, call, result, now, client>>

\* A thread calls get_results_manager or record_test_result
Begin(t) ==
    \E op \in {"get_results_manager", "record_test_result"} :
        /\ threads[t].pc = "idle"
        /\ threads[t].calls < MaxCalls
        /\ threads' = [threads EXCEPT ![t].pc = "check", ![t].op = op]
        /\ UNCHANGED <<_results_manager, managers>>
        /\ ThreadFrame

\* if _results_manager is None
CheckGlobal(t) ==
    /\ threads[t].pc = "check"
    /\ threads' = [threads EXCEPT ![t].pc =
                      IF _results_manager = NoInstance THEN "create" ELSE "load"]
    /\ UNCHANGED <<_results_manager, managers>>
    /\ ThreadFrame

\* ResultsManager()
Construct(t) ==
    /\ threads[t].pc = "create"
    /\ managers' = Append(managers, ResultsManager)
    /\ threads' = [threads EXCEPT ![t].pc = "store", ![t].instance = Len(managers) + 1]
    /\ UNCHANGED _results_manager
    /\ ThreadFrame

\* _results_manager = <the new instance>
StoreGlobal(t) ==
    /\ threads[t].pc = "store"
    /\ _results_manager' = threads[t].instance
    /\ threads' = [threads EXCEPT ![t].pc = "load"]
    /\ UNCHANGED managers
    /\ ThreadFrame

\* return _results_manager
LoadGlobal(t) ==
    /\ threads[t].pc = "load"
    /\ threads' = [threads EXCEPT ![t] =
                      IF @.op = "record_test_result"
                      THEN [@ EXCEPT !.pc = "append", !.manager = _results_manager]
                      ELSE Idle(@.calls + 1, @.recorded, @.instance, _results_manager)]
    /\ UNCHANGED <<_results_manager, managers>>
    /\ ThreadFrame

\* The result that thread t records in its n-th recording call
ResultOf(t, n) == TestResult(<<t, n>>, "unit", "passed", 1, 0, None)

\* .add_test_result(result) on the manager that was returned
AppendResult(t) ==
    /\ threads[t].pc = "append"
    /\ managers' = [managers EXCEPT ![threads[t].manager] =
                       add_test_result(@, ResultOf(t, threads[t].recorded + 1))]
    /\ threads' = [threads EXCEPT ![t] =
                      Idle(@.calls + 1, @.recorded + 1, @.instance, @.manager)]
    /\ UNCHANGED _results_manager
    /\ ThreadFrame

NextThreads ==
    \E t \in Threads :
        \/ Begin(t)
        \/ CheckGlobal(t)
        \/ Construct(t)
        \/ StoreGlobal(t)
        \/ LoadGlobal(t)
        \/ AppendResult(t)

SpecThreads == InitThreads /\ [][NextThreads]_vars

(***************************************************************************)
(* Claims on concurrent first calls                                        *)
(***************************************************************************)
\* No thread is inside a call
AllIdle == \A t \in Threads : threads[t].pc = "idle"

\* The manager m holds the result
Holds(m, test_result) ==
    \E i \in DOMAIN managers[m].test_results : managers[m].test_results[i] = test_result

\* C29: when threads make their first calls of get_results_manager,
\* directly or through record_test_result, concurrently, then under every
\* interleaving at most one ResultsManager is created and no recorded
\* result is lost: once the calls have returned, every result recorded by
\* a thread is in the instance that later calls observe.
C29_OneInstanceNothingLost ==
    /\ Len(managers) <= 1
    /\ AllIdle =>
          \A t \in Threads : \A n \in 1..threads[t].recorded :
              /\ _results_manager # NoInstance
              /\ Holds(_results_manager, ResultOf(t, n))

(***************************************************************************)
(* Schema detector (tests/utils/schema_detector.py).  The workspace client *)
(* is the environment: each of its calls raises or responds, and the       *)
(* variable client holds the calls made on it, in order.                   *)
(***************************************************************************)
\* A call of the client raises, or responds with a payload
Fails == [raised |-> TRUE, payload |-> <<>>]

Responds(payload) == [raised |-> FALSE, payload |-> payload]

\* The payload of tables.get: table_info.columns, None or a list of columns
TableColumns(present, columns) == [present |-> present, columns |-> columns]

\* The payload of execute_statement: result.result, None or with a
\* data_array (None and the empty list are both falsy)
StatementResult(present, data_array) == [present |-> present, data_array |-> data_array]

\* client.tables.get(table_name)
TablesGet(table_name) == [api |-> "tables.get", statement |-> <<table_name>>, warehouse_id |-> None]

\* client.statement_execution.execute_statement(statement, warehouse_id, ...)
ExecuteStatement(statement, warehouse_id) ==
    [api |-> "execute_statement", statement |-> statement, warehouse_id |-> warehouse_id]

\* What a method of the detector gives: returned columns or an exception,
\* and the calls it made on the client
Gives(outcome, calls) == [outcome |-> outcome, calls |-> calls]

\* table_name.split('.')
RECURSIVE SplitOnDot(_)
SplitOnDot(chars) ==
    IF \E i \in DOMAIN chars : chars[i] = "."
    THEN LET at == CHOOSE i \in DOMAIN chars :
                      chars[i] = "." /\ \A j \in 1..(i - 1) : chars[j] # "."
         IN  <<SubSeq(chars, 1, at - 1)>> \o SplitOnDot(SubSeq(chars, at + 1, Len(chars)))
    ELSE <<chars>>

_get_schema_via_native_sdk(table_name, response) ==
    Gives(IF response.raised THEN Raised("Exception")
          ELSE IF ~response.payload.present \/ response.payload.columns = <<>>
          THEN Raised("ValueError")
          ELSE IF \E i \in DOMAIN response.payload.columns :
                      response.payload.columns[i].type_name = None
          THEN Raised("AttributeError")
          ELSE Returned([ i \in DOMAIN response.payload.columns |->
                            << response.payload.columns[i].name,
                               response.payload.columns[i].type_name >> ]),
          <<TablesGet(table_name)>>)

\* `if not (result.result and result.result.data_array)`
NoData(response) == ~response.payload.present \/ response.payload.data_array = <<>>

\* The rows whose first cell is truthy
RECURSIVE NamedRows(_)
NamedRows(rows) ==
    IF rows = <<>> THEN <<>>
    ELSE IF Truthy(Head(rows)[1])
    THEN << <<Head(rows)[1], Head(rows)[2]>> >> \o NamedRows(Tail(rows))
    ELSE NamedRows(Tail(rows))

\* row[0] or row[1] of the comprehension is out of range
ShortRow(rows) ==
    \E i \in DOMAIN rows :
        \/ Len(rows[i]) = 0
        \/ Len(rows[i]) = 1 /\ Truthy(rows[i][1])

_get_schema_via_information_schema(warehouse_id, table_name, response) ==
    IF Len(SplitOnDot(table_name)) # 3 THEN Gives(Raised("ValueError"), <<>>)
    ELSE Gives(IF response.raised THEN Raised("Exception")
               ELSE IF NoData(response) THEN Raised("ValueError")
               ELSE IF ShortRow(response.payload.data_array) THEN Raised("IndexError")
               ELSE IF NamedRows(response.payload.data_array) = <<>> THEN Raised("ValueError")
               ELSE Returned(NamedRows(response.payload.data_array)),
               <<ExecuteStatement(<<"information_schema.columns">> \o SplitOnDot(table_name),
                                  warehouse_id)>>)

\* col_name.startswith('#') or col_name.lower().startswith('clustering')
StartsMetadata(col_name) ==
    \/ StartsWith(col_name, <<"#">>)
    \/ StartsWith(Lower(col_name), <<"c","l","u","s","t","e","r","i","n","g">>)

\* The loop over the rows, up to the first row of a metadata section
RECURSIVE ColumnRows(_)
ColumnRows(rows) ==
    IF rows = <<>> THEN <<>>
    ELSE LET row == Head(rows)
             col_name == IF Len(row) > 0 THEN row[1] ELSE None
             col_type == IF Len(row) > 1 THEN row[2] ELSE None
         IN  IF ~Truthy(col_name) \/ StartsMetadata(col_name.s) THEN <<>>
             ELSE << <<col_name, col_type>> >> \o ColumnRows(Tail(rows))

_get_schema_via_describe_table(warehouse_id, table_name, response) ==
    Gives(IF response.raised THEN Raised("Exception")
          ELSE IF NoData(response) THEN Raised("ValueError")
          ELSE IF ColumnRows(response.payload.data_array) = <<>> THEN Raised("ValueError")
          ELSE Returned(ColumnRows(response.payload.data_array)),
          <<ExecuteStatement(<<"DESCRIBE", table_name>>, warehouse_id)>>)

\* The methods after the first: tried in order while the ones before them
\* failed, their calls on the client added to those made so far
RECURSIVE Fallback(_, _)
Fallback(methods, calls) ==
    IF methods = <<>> THEN Gives(Raised("SchemaDetectionError"), calls)
    ELSE IF Head(methods).outcome.exc = "none"
    THEN Gives(Head(methods).outcome, calls \o Head(methods).calls)
    ELSE Fallback(Tail(methods), calls \o Head(methods).calls)

get_table_schema_without_warehouse_test(self, table_name, sdk, information_schema, describe) ==
    Fallback(<< _get_schema_via_native_sdk(table_name, sdk),
                _get_schema_via_information_schema(self.warehouse_id, table_name,
                                                   information_schema),
                _get_schema_via_describe_table(self.warehouse_id, table_name, describe) >>,
             <<>>)

\* sdk, information_schema and describe are the responses of the client
\* to the calls the three methods make
get_table_schema(self, table_name, sdk, information_schema, describe) ==
    Fallback(<< _get_schema_via_native_sdk(table_name, sdk) >>
             \o (IF Truthy(self.warehouse_id)
                 THEN << _get_schema_via_information_schema(self.warehouse_id, table_name,
                                                            information_schema) >>
                 ELSE <<>>)
             \o (IF Truthy(self.warehouse_id)
                 THEN << _get_schema_via_describe_table(self.warehouse_id, table_name,
                                                        describe) >>
                 ELSE <<>>),
             <<>>)

(***************************************************************************)
(* Specification of the schema detector                                    *)
(***************************************************************************)
MaxClientCalls == 3

\* SchemaDetector(client, warehouse_id): no warehouse, an empty id, an id
SchemaDetectors ==
    { [warehouse_id |-> w] : w \in { None, PyStr(<<>>), PyStr(<<"w","h">>) } }

TableNames == { <<"c",".","s",".","t">>, <<"t">> }

SdkColumn(name, type_name) == [name |-> name, type_name |-> type_name]

SdkResponses ==
    { Fails,
      Responds(TableColumns(FALSE, <<>>)),
      Responds(TableColumns(TRUE, <<>>)),
      Responds(TableColumns(TRUE, <<SdkColumn(PyStr(<<"i","d">>), PyStr(<<"L","O","N","G">>))>>)),
      Responds(TableColumns(TRUE, <<SdkColumn(PyStr(<<"i","d">>), None)>>)) }

\* Rows of a statement result: columns, then a metadata section
IdRow == <<PyStr(<<"i","d">>), PyStr(<<"B","I","G","I","N","T">>)>>

MetadataRow == <<PyStr(<<"#"," ","C","l","u","s","t","e","r","i","n","g">>), PyStr(<<>>)>>

SqlResponses ==
    { Fails,
      Responds(StatementResult(FALSE, <<>>)),
      Responds(StatementResult(TRUE, <<>>)),
      Responds(StatementResult(TRUE, <<IdRow>>)),
      Responds(StatementResult(TRUE, <<IdRow, MetadataRow, IdRow>>)),
      Responds(StatementResult(TRUE, <<MetadataRow, IdRow>>)),
      Responds(StatementResult(TRUE, << <<None, None>> >>)),
      Responds(StatementResult(TRUE, << <<PyStr(<<"i","d">>)>> >>)) }

InitSchema ==
    /\ table = TableInfo(None, <<>>, NoProperties)
    /\ config \in SchemaDetectors
    /\ call = NoCall
    /\ result = Returned(FALSE)
    /\ NothingRecorded

GetTableSchema ==
    \E table_name \in TableNames, sdk \in SdkResponses,
       information_schema \in SqlResponses, describe \in SqlResponses :
        /\ call = NoCall
        /\ Len(client) + 3 <= MaxClientCalls
        /\ call' = [ op |-> "get_table_schema", table_name |-> table_name, sdk |-> sdk,
                     information_schema |-> information_schema, describe |-> describe ]
        /\ result' = get_table_schema(config, table_name, sdk, information_schema,
                                      describe).outcome
        /\ client' = client \o get_table_schema(config, table_name, sdk, information_schema,
                                                describe).calls
        /\ UNCHANGED <<table, config, reporting>>

NextSchema ==
    \/ Return
    \/ GetTableSchema

SpecSchema == InitSchema /\ [][NextSchema]_vars

(***************************************************************************)
(* Claims on the schema detector                                           *)
(***************************************************************************)
\* The three methods in priority order, each on the response the client
\* would give it in the call being made
MethodsInOrder ==
    << _get_schema_via_native_sdk(call'.table_name, call'.sdk),
       _get_schema_via_information_schema(config.warehouse_id, call'.table_name,
                                          call'.information_schema),
       _get_schema_via_describe_table(config.warehouse_id, call'.table_name,
                                      call'.describe) >>

\* The positions of the methods that get_table_schema may attempt: the
\* native SDK always, the SQL methods with a warehouse_id
Attemptable == IF Truthy(config.warehouse_id) THEN {1, 2, 3} ELSE {1}

Succeeds(i) == MethodsInOrder[i].outcome.exc = "none"

\* The calls of the methods at the positions, in priority order
RECURSIVE CallsOf(_)
CallsOf(positions) ==
    IF positions = {} THEN <<>>
    ELSE LET first == CHOOSE i \in positions : \A j \in positions : i <= j
         IN  MethodsInOrder[first].calls \o CallsOf(positions \ {first})

\* C28: get_table_schema tries native SDK, information schema and DESCRIBE
\* TABLE in that order and returns the result of the first that succeeds
\* without invoking a later one; the SQL methods are attempted only when a
\* warehouse_id is configured (with none, no statement is executed); it
\* raises SchemaDetectionError iff every attempted method fails.
C28_FirstSuccessInPriorityOrder ==
    [][ Calling("get_table_schema") =>
          LET succeeding == { i \in Attemptable : Succeeds(i) }
              first == CHOOSE i \in succeeding : \A j \in succeeding : i <= j
              made == SubSeq(client', Len(client) + 1, Len(client'))
          IN  /\ succeeding # {} =>
                    /\ result' = MethodsInOrder[first].outcome
                    /\ made = CallsOf({ i \in Attemptable : i <= first })
              /\ succeeding = {} =>
                    /\ result' = Raised("SchemaDetectionError")
                    /\ made = CallsOf(Attemptable)
              /\ result'.exc \in {"none", "SchemaDetectionError"}
              /\ config.warehouse_id = None =>
                    \A i \in DOMAIN made : made[i].api # "execute_statement"
              /\ \A i \in DOMAIN made :
                     made[i].api = "execute_statement" =>
                         /\ Truthy(config.warehouse_id)
                         /\ made[i].warehouse_id = config.warehouse_id
      ]_vars

\* The native SDK fails, the information schema answers, and DESCRIBE
\* TABLE, which would answer too, is not executed.
C28_Witness ==
    /\ call.op = "get_table_schema"
    /\ call.sdk = Fails
    /\ call.describe = Responds(StatementResult(TRUE, <<IdRow>>))
    /\ result = Returned(<<IdRow>>)
    /\ Len(client) = 2
    /\ client[2].statement[1] = "information_schema.columns"

====
